---- MODULE Spec2Model ----
(***************************************************************************)
(* State-machine model of the project-scoped synchronisation layer of      *)
(* pm-panda: the ProjectEventBus (subscribe / unsubscribe handles / emit   *)
(* with Array.prototype.forEach dispatch) and the data refresh             *)
(* orchestrator refreshProjectData.                                        *)
(*                                                                         *)
(* JavaScript is single threaded and runs every synchronous section to     *)
(* completion.  The call stack of emit() invocations is the variable       *)
(* `stack`; code that is not a continuation of the running callback (the   *)
(* resumption of an awaited fetch) runs only when the stack is empty.      *)
(***************************************************************************)
EXTENDS Integers, Sequences, FiniteSets, TLC

\* ------------------------------------------------------------------ bounds
NumCallbacks == 2     \* distinct callback references
MaxSubscribes == 3    \* subscribe calls in one run
MaxEmits == 2         \* direct emit calls in one run (refresh emits come on top)
MaxUnsubscribes == 2  \* invocations of unsubscribe handles in one run
MaxThrows == 1        \* listener invocations that raise an error in one run
MaxDepth == 2         \* nesting depth of emit calls (a listener calling emit)
NumProjects == 2      \* project ids
MaxRefreshes == 1     \* refreshProjectData calls in one run
MaxSurfaces == 1      \* UI surfaces that subscribe their handler while refreshes run
MaxEntityRefreshes == 2  \* refreshPRDData / refreshSpecData calls in one run
MaxUpdates == 1       \* events a client of the bus emits while a workspace is open
MaxProjectChanges == 1  \* times the open workspace is given another project
MaxTurns == 2         \* chat turns sent from one sidebar
MaxPrior == 1         \* chat messages the backend holds when the sidebar opens

Callbacks == 1..NumCallbacks
Projects == 1..NumProjects

\* ------------------------------------------------------------------ values
\* JavaScript `undefined` / `null` and the entities, all records so that any
\* two values can be compared.
Undefined == [tag |-> "undefined"]
Null == [tag |-> "null"]
Str(s) == [tag |-> "string", v |-> s]

VARIABLES
    listeners,     \* ProjectEventBus.listeners: the array of callback references
    handleCb,      \* handleCb[h]: the callback captured by the h-th unsubscribe closure
    handleCalls,   \* handleCalls[h]: how many times the h-th closure has been invoked
    handleAt,      \* handleAt[h]: number of emit calls begun when subscribe call h was made
    stack,         \* the active emit() calls, innermost last: forEach's length, index, callee
    emits,         \* history: one record per emit call, in the order the calls began
    log,           \* history: the callback invocations, in the order they began
    refreshes,     \* the refreshProjectData calls: position, result so far, fetch outcomes
    entityRefreshes,  \* the refreshPRDData / refreshSpecData calls: position, outcome, value
    ws,            \* the ProjectWorkspace component: props, state, subscribed closure, loads
    chat,          \* the ChatSidebar component: state, turns in flight, calls it has made
    backend        \* the backend: the chat_messages table, its clock, the last response

vars == <<listeners, handleCb, handleCalls, handleAt, stack, emits, log, refreshes,
          entityRefreshes, ws, chat, backend>>

busVars == <<listeners, handleCb, handleCalls, handleAt, stack, emits, log>>

uiVars == <<ws, chat>>

\* ------------------------------------------------------------------ helpers
Top == stack[Len(stack)]

\* Synchronous code can call the bus when nothing is running (a new task) or from
\* inside the listener that the innermost emit is currently calling.
CanCall == IF stack = <<>> THEN TRUE ELSE Top.running # 0

\* A new task (the continuation of an awaited promise) starts only on an empty stack.
Idle == stack = <<>>

Active(e) == \E i \in DOMAIN stack : stack[i].ev = e

Count(seq, x) == Cardinality({i \in DOMAIN seq : seq[i] = x})

RECURSIVE Sum(_)
Sum(seq) == IF seq = <<>> THEN 0 ELSE Head(seq) + Sum(Tail(seq))

\* ------------------------------------------------------------------ Array operations
PushUnique(ls, c) == IF \E i \in DOMAIN ls : ls[i] = c THEN ls ELSE Append(ls, c)

\* Array.prototype.push
Push(ls, c) == Append(ls, c)

\* Array.prototype.indexOf: the 0-based index of the first element identical to c, or -1
IndexOf(ls, c) ==
    IF \E i \in DOMAIN ls : ls[i] = c
    THEN (CHOOSE i \in DOMAIN ls : ls[i] = c /\ \A j \in 1..(i - 1) : ls[j] # c) - 1
    ELSE -1

\* Array.prototype.splice(index, 1), index 0-based
Splice(ls, index) == SubSeq(ls, 1, index) \o SubSeq(ls, index + 2, Len(ls))

RemoveListenerSkipFirst(ls, c) ==
    LET index == IndexOf(ls, c)
    IN IF index > 0 THEN Splice(ls, index) ELSE ls

\* The closure returned by subscribe: indexOf, then splice when index > -1
RemoveListener(ls, c) ==
    LET index == IndexOf(ls, c)
    IN IF index > -1 THEN Splice(ls, index) ELSE ls

\* ------------------------------------------------------------------ the event bus
\* The envelope emitFullRefresh builds: update type 'all', no data field.
FullRefreshEvent(p, source) ==
    [projectId |-> p, updateType |-> "all", data |-> Undefined, source |-> source]

\* A subscribe or unsubscribe call made during a dispatch, recorded on every emit call
\* that is active.  kind "self": the listener being called by the innermost emit
\* invoked an unsubscribe handle of its own callback.
Mutated(kind) ==
    [e \in DOMAIN emits |->
        IF ~Active(e) THEN emits[e]
        ELSE [emits[e] EXCEPT !.mutated =
                IF e = Top.ev /\ kind = "self" /\ @ \in {"none", "self"}
                THEN "self" ELSE "other"]]

\* subscribe(callback): push, and return a closure over callback.
Subscribe(c) ==
    /\ CanCall
    /\ Len(handleCb) < MaxSubscribes
    /\ listeners' = Push(listeners, c)
    /\ handleCb' = Append(handleCb, c)
    /\ handleCalls' = Append(handleCalls, 0)
    /\ handleAt' = Append(handleAt, Len(emits))
    /\ emits' = Mutated("other")
    /\ UNCHANGED <<backend, stack, log, refreshes, entityRefreshes, uiVars>>

\* Invoking the closure that the h-th subscribe call returned.
Unsubscribe(h) ==
    /\ CanCall
    /\ h \in DOMAIN handleCb
    /\ Sum(handleCalls) < MaxUnsubscribes
    /\ listeners' = RemoveListener(listeners, handleCb[h])
    /\ handleCalls' = [handleCalls EXCEPT ![h] = @ + 1]
    /\ emits' = IF stack = <<>> THEN emits
                ELSE IF Top.running = handleCb[h] THEN Mutated("self")
                ELSE Mutated("other")
    /\ UNCHANGED <<backend, handleCb, handleAt, stack, log, refreshes, entityRefreshes, uiVars>>

\* emit(event): forEach reads the length once, then walks the indices.
BeginEmit(event, caller) ==
    /\ stack' = Append(stack, [ev |-> Len(emits) + 1, len |-> Len(listeners), k |-> 0,
                               running |-> 0, at |-> 0, aborted |-> FALSE,
                               caller |-> caller])
    /\ emits' = Append(emits, [event |-> event, caller |-> caller,
                               listeners0 |-> listeners, calls0 |-> handleCalls,
                               mutated |-> "none", done |-> FALSE,
                               rethrown |-> FALSE, visited |-> 0])

\* projectEventBus.emitFullRefresh(p), called by a task or by a running listener.
EmitFullRefresh(p) ==
    /\ CanCall
    /\ Cardinality({e \in DOMAIN emits : emits[e].caller = 0}) < MaxEmits
    /\ Len(stack) < MaxDepth
    /\ BeginEmit(FullRefreshEvent(p, "ai-agent"), 0)
    /\ UNCHANGED <<backend, listeners, handleCb, handleCalls, handleAt, log, refreshes, entityRefreshes, uiVars>>

\* forEach at index k: the element is present, the callback is called with the event.
ForEachCall ==
    /\ stack # <<>>
    /\ Top.running = 0 /\ ~Top.aborted
    /\ Top.k < Top.len /\ Top.k < Len(listeners)
    /\ log' = Append(log, [ev |-> Top.ev, cb |-> listeners[Top.k + 1], threw |-> FALSE])
    /\ stack' = [stack EXCEPT ![Len(stack)] =
                    [@ EXCEPT !.running = listeners[Top.k + 1], !.at = Len(log) + 1]]
    /\ UNCHANGED <<backend, listeners, handleCb, handleCalls, handleAt, emits, refreshes, entityRefreshes, uiVars>>

\* forEach at index k: the array has shrunk and holds no element k, the index is skipped.
ForEachSkip ==
    /\ stack # <<>>
    /\ Top.running = 0 /\ ~Top.aborted
    /\ Top.k < Top.len /\ Top.k >= Len(listeners)
    /\ stack' = [stack EXCEPT ![Len(stack)] = [@ EXCEPT !.k = @ + 1]]
    /\ UNCHANGED <<backend, listeners, handleCb, handleCalls, handleAt, emits, log, refreshes, entityRefreshes, uiVars>>

\* The frame of an emit whose listener returned normally.
ListenerReturned(frame) == [frame EXCEPT !.running = 0, !.at = 0, !.k = @ + 1]

ListenerThrewUncaught(frame) == [frame EXCEPT !.running = 0, !.at = 0, !.aborted = TRUE]

\* The frame of an emit whose listener threw: the catch block logs the error and
\* forEach goes on with the next index.
ListenerThrew(frame) == [frame EXCEPT !.running = 0, !.at = 0, !.k = @ + 1]

CallbackReturns ==
    /\ stack # <<>>
    /\ Top.running # 0
    /\ stack' = [stack EXCEPT ![Len(stack)] = ListenerReturned(@)]
    /\ UNCHANGED <<backend, listeners, handleCb, handleCalls, handleAt, emits, log, refreshes, entityRefreshes, uiVars>>

CallbackThrows ==
    /\ stack # <<>>
    /\ Top.running # 0
    /\ Cardinality({i \in DOMAIN log : log[i].threw}) < MaxThrows
    /\ log' = [log EXCEPT ![Top.at].threw = TRUE]
    /\ stack' = [stack EXCEPT ![Len(stack)] = ListenerThrew(@)]
    /\ UNCHANGED <<backend, listeners, handleCb, handleCalls, handleAt, emits, refreshes, entityRefreshes, uiVars>>

\* refreshProjectData after its emit call: it logs and returns the result; an
\* error thrown by emit reaches the outer catch block, which pushes an entry on
\* errors and returns the result as well.
RefreshReturned(r, threw) ==
    IF threw
    THEN [r EXCEPT !.result.errors = Append(@, "Critical error during data refresh"),
                   !.pc = "done"]
    ELSE [r EXCEPT !.pc = "done"]

\* refreshPRDData / refreshSpecData after the emitter call: the entity is
\* returned; an error thrown by the emitter reaches the catch block, which returns null.
EntityRefreshReturned(r, threw) ==
    IF threw THEN [r EXCEPT !.value = [tag |-> "null"], !.pc = "done"]
    ELSE [r EXCEPT !.pc = "done"]

\* emit returns to its caller: forEach has walked all len indices.  A refresh that
\* called emit then logs and returns its result in the same synchronous section.
\* The caller of an emit is 0 for a direct call, i for the i-th refreshProjectData
\* call and -j for the j-th refreshPRDData / refreshSpecData call.
EmitReturns ==
    /\ stack # <<>>
    /\ Top.running = 0
    /\ IF Top.aborted THEN TRUE ELSE Top.k >= Top.len
    /\ emits' = [emits EXCEPT ![Top.ev] =
                    [@ EXCEPT !.done = TRUE, !.rethrown = Top.aborted, !.visited = Top.k]]
    /\ stack' = SubSeq(stack, 1, Len(stack) - 1)
    /\ refreshes' = IF Top.caller > 0
                    THEN [refreshes EXCEPT ![Top.caller] = RefreshReturned(@, Top.aborted)]
                    ELSE refreshes
    /\ entityRefreshes' = IF Top.caller < 0
                          THEN [entityRefreshes EXCEPT ![-Top.caller] =
                                    EntityRefreshReturned(@, Top.aborted)]
                          ELSE entityRefreshes
    /\ UNCHANGED <<backend, listeners, handleCb, handleCalls, handleAt, log, uiVars>>

\* ------------------------------------------------------------------ remote data clients
\* How a fetch settles.  request() returns the parsed body of an ok response and
\* throws for every other response; a failing network rejects the fetch.
FetchOutcomes == {"ok", "notFound", "error"}
Throws(o) == o \in {"notFound", "error"}

\* The rows the backend holds.  The nullable columns of the rows of project 1 are
\* null, those of the other projects hold text.
Nullable(p, text) == IF p = 1 THEN Null ELSE Str(text)

BackendProject(p) ==
    [tag |-> "project", id |-> p, name |-> Str("name"),
     description |-> Nullable(p, "description")]

BackendPRD(p) ==
    [tag |-> "prd", id |-> p, project_id |-> p, title |-> Str("title"),
     content |-> Nullable(p, "content"), status |-> Str("draft")]

BackendSpec(p) ==
    [tag |-> "spec", id |-> p, project_id |-> p, title |-> Str("title"),
     content |-> Nullable(p, "content"),
     technical_details |-> Nullable(p, "details"),
     status |-> Str("draft")]

\* JavaScript's  v || d
Falsy(v) == v \in {Undefined, Null, Str("")}
OrElse(v, d) == IF Falsy(v) THEN d ELSE v

\* ------------------------------------------------------------------ refreshProjectData
NewRefresh(p) ==
    [projectId |-> p, pc |-> "project",
     result |-> [project |-> Undefined, prd |-> Undefined, spec |-> Undefined, errors |-> <<>>],
     outcomes |-> [project |-> "pending", prd |-> "pending", spec |-> "pending"]]

AfterProjectFetchAborts(r, o) ==
    IF Throws(o)
    THEN [r EXCEPT !.result.errors = Append(@, "Failed to refresh project data"),
                   !.outcomes.project = o, !.pc = "done"]
    ELSE [r EXCEPT !.result.project = BackendProject(r.projectId),
                   !.outcomes.project = o, !.pc = "prd"]

AfterProjectFetchSilent(r, o) ==
    IF Throws(o)
    THEN [r EXCEPT !.outcomes.project = o, !.pc = "prd"]
    ELSE [r EXCEPT !.result.project = BackendProject(r.projectId),
                   !.outcomes.project = o, !.pc = "prd"]

\* The first try block: the project is stored, or the failure is pushed on errors;
\* either way the PRD fetch is issued next.
AfterProjectFetch(r, o) ==
    IF Throws(o)
    THEN [r EXCEPT !.result.errors = Append(@, "Failed to refresh project data"),
                   !.outcomes.project = o, !.pc = "prd"]
    ELSE [r EXCEPT !.result.project = BackendProject(r.projectId),
                   !.outcomes.project = o, !.pc = "prd"]

AfterPRDFetchRecordsError(r, o) ==
    IF Throws(o)
    THEN [r EXCEPT !.result.errors = Append(@, "Failed to refresh PRD data"),
                   !.outcomes.prd = o, !.pc = "spec"]
    ELSE [r EXCEPT !.result.prd = BackendPRD(r.projectId), !.outcomes.prd = o, !.pc = "spec"]

\* The second try block: the PRD is stored, or the catch block only logs.
AfterPRDFetch(r, o) ==
    IF Throws(o)
    THEN [r EXCEPT !.outcomes.prd = o, !.pc = "spec"]
    ELSE [r EXCEPT !.result.prd = BackendPRD(r.projectId), !.outcomes.prd = o, !.pc = "spec"]

\* The third try block; the emit follows in the same synchronous section.
AfterSpecFetch(r, o) ==
    IF Throws(o)
    THEN [r EXCEPT !.outcomes.spec = o, !.pc = "emitting"]
    ELSE [r EXCEPT !.result.spec = BackendSpec(r.projectId), !.outcomes.spec = o,
                   !.pc = "emitting"]

RefreshEventAsAgent(p, result) ==
    [projectId |-> p, updateType |-> "all",
     data |-> [project |-> result.project, prd |-> result.prd, spec |-> result.spec],
     source |-> "ai-agent"]

\* The envelope refreshProjectData emits.
RefreshEvent(p, result) ==
    [projectId |-> p,
     updateType |-> "all",
     data |->
        [project |-> IF ~Falsy(result.project)
                     THEN [id |-> result.project.id, name |-> result.project.name,
                           description |-> OrElse(result.project.description, Undefined)]
                     ELSE Undefined,
         prd |-> IF ~Falsy(result.prd)
                 THEN [id |-> result.prd.id, title |-> result.prd.title,
                       content |-> OrElse(result.prd.content, Str("")),
                       status |-> result.prd.status]
                 ELSE Undefined,
         spec |-> IF ~Falsy(result.spec)
                  THEN [id |-> result.spec.id, title |-> result.spec.title,
                        content |-> OrElse(result.spec.content, Str("")),
                        technical_details |-> OrElse(result.spec.technical_details, Str("")),
                        status |-> result.spec.status]
                  ELSE Undefined],
     source |-> "api"]

\* refreshProjectData(p) is called: result = { errors: [] }, the project fetch is issued.
RefreshProjectData(p) ==
    /\ CanCall
    /\ Len(refreshes) < MaxRefreshes
    /\ refreshes' = Append(refreshes, NewRefresh(p))
    /\ UNCHANGED <<backend, busVars, entityRefreshes, uiVars>>

ProjectFetchSettles(i, o) ==
    /\ Idle
    /\ i \in DOMAIN refreshes
    /\ refreshes[i].pc = "project"
    /\ refreshes' = [refreshes EXCEPT ![i] = AfterProjectFetch(@, o)]
    /\ UNCHANGED <<backend, busVars, entityRefreshes, uiVars>>

PRDFetchSettles(i, o) ==
    /\ Idle
    /\ i \in DOMAIN refreshes
    /\ refreshes[i].pc = "prd"
    /\ refreshes' = [refreshes EXCEPT ![i] = AfterPRDFetch(@, o)]
    /\ UNCHANGED <<backend, busVars, entityRefreshes, uiVars>>

\* The Spec fetch settles and projectEventBus.emit is called; EmitReturns completes
\* the call ("refresh completed", return result).
SpecFetchSettles(i, o) ==
    /\ Idle
    /\ i \in DOMAIN refreshes
    /\ refreshes[i].pc = "spec"
    /\ refreshes' = [refreshes EXCEPT ![i] = AfterSpecFetch(@, o)]
    /\ BeginEmit(RefreshEvent(refreshes[i].projectId, refreshes'[i].result), i)
    /\ UNCHANGED <<backend, listeners, handleCb, handleCalls, handleAt, log, entityRefreshes, uiVars>>

\* ------------------------------------------------------------------ refreshPRDData, refreshSpecData
\* The envelopes of the convenience emitters.  The payload object they build has
\* the one key of the entity; a key that is missing reads as undefined.
PRDUpdateEvent(p, prdData, source) ==
    [projectId |-> p, updateType |-> "prd",
     data |-> [project |-> Undefined, prd |-> prdData, spec |-> Undefined],
     source |-> source]

SpecUpdateEvent(p, specData, source) ==
    [projectId |-> p, updateType |-> "spec",
     data |-> [project |-> Undefined, prd |-> Undefined, spec |-> specData],
     source |-> source]

\* The event refreshPRDData / refreshSpecData emits for the entity it fetched.
EntityEvent(kind, p, entity) ==
    IF kind = "prd"
    THEN PRDUpdateEvent(p, [id |-> entity.id, title |-> entity.title,
                            content |-> OrElse(entity.content, Str("")),
                            status |-> entity.status], "api")
    ELSE SpecUpdateEvent(p, [id |-> entity.id, title |-> entity.title,
                             content |-> OrElse(entity.content, Str("")),
                             technical_details |-> OrElse(entity.technical_details, Str("")),
                             status |-> entity.status], "api")

BackendEntity(kind, p) == IF kind = "prd" THEN BackendPRD(p) ELSE BackendSpec(p)

NewEntityRefresh(kind, p) ==
    [kind |-> kind, projectId |-> p, pc |-> "fetch", outcome |-> "pending",
     value |-> Undefined, errors |-> 0]

EntityFetchFailedRaises(r, o) ==
    [r EXCEPT !.outcome = o, !.value = Undefined, !.errors = 1, !.pc = "done"]

\* The catch block: the failure is logged and null is returned.
EntityFetchFailed(r, o) == [r EXCEPT !.outcome = o, !.value = Null, !.pc = "done"]

\* The try block after the await: the entity is the value the call returns once
\* the emit has returned.
EntityFetched(r, o) ==
    [r EXCEPT !.outcome = o, !.value = BackendEntity(r.kind, r.projectId), !.pc = "emitting"]

\* refreshPRDData(p) / refreshSpecData(p) is called: the fetch is issued.
RefreshEntityData(kind, p) ==
    /\ CanCall
    /\ Len(entityRefreshes) < MaxEntityRefreshes
    /\ entityRefreshes' = Append(entityRefreshes, NewEntityRefresh(kind, p))
    /\ UNCHANGED <<backend, busVars, refreshes, uiVars>>

RefreshPRDData(p) == RefreshEntityData("prd", p)

RefreshSpecData(p) == RefreshEntityData("spec", p)

\* The fetch is rejected: the call returns null without an emit.
EntityFetchRejects(j, o) ==
    /\ Idle
    /\ j \in DOMAIN entityRefreshes
    /\ entityRefreshes[j].pc = "fetch"
    /\ Throws(o)
    /\ entityRefreshes' = [entityRefreshes EXCEPT ![j] = EntityFetchFailed(@, o)]
    /\ UNCHANGED <<backend, busVars, refreshes, uiVars>>

\* The fetch resolves: the convenience emitter is called; EmitReturns completes the call.
EntityFetchResolves(j) ==
    /\ Idle
    /\ j \in DOMAIN entityRefreshes
    /\ entityRefreshes[j].pc = "fetch"
    /\ entityRefreshes' = [entityRefreshes EXCEPT ![j] = EntityFetched(@, "ok")]
    /\ BeginEmit(EntityEvent(entityRefreshes[j].kind, entityRefreshes[j].projectId,
                             entityRefreshes'[j].value), -j)
    /\ UNCHANGED <<backend, listeners, handleCb, handleCalls, handleAt, log, refreshes, uiVars>>

\* A UI surface mounts: its effect subscribes the surface's own update handler.
SurfaceSubscribes ==
    /\ Idle
    /\ Len(handleCb) < MaxSurfaces
    /\ Len(handleCb) < NumCallbacks
    /\ Subscribe(Len(handleCb) + 1)

\* ------------------------------------------------------------------ ProjectWorkspace
\* The route parameter is the decimal text of the project id; Number() parses it,
\* and a text that is no number gives NaN, which equals no id.
RouteParam(p) == ToString(p)

NaN == -1

Number(s) ==
    IF \E n \in Projects : ToString(n) = s
    THEN CHOOSE n \in Projects : ToString(n) = s
    ELSE NaN

Tabs == {"prd", "spec"}
UpdateTypes == {"project", "prd", "spec", "all"}
Sources == {"ai-agent", "manual", "api"}

EmptyContent ==
    [prd |-> [title |-> Str(""), content |-> Str(""), status |-> Str("draft")],
     spec |-> [title |-> Str(""), content |-> Str(""), technical_details |-> Str(""),
               status |-> Str("draft")]]

WsUnmounted == [mounted |-> FALSE]

\* The component after its first render, before its effects have run.  created_at
\* and updated_at of the entities are left out of the model.
WsFirstRender(p, tab) ==
    [mounted |-> TRUE, projectId |-> RouteParam(p), activeTab |-> tab,
     project |-> Null, prd |-> Null, spec |-> Null,
     localTitle |-> Str(""), localDescription |-> Str(""),
     content |-> EmptyContent,
     toasts |-> <<>>,
     handler |-> [handle |-> 0, projectId |-> "", activeTab |-> ""],
     loads |-> <<>>, saves |-> <<>>]

\* event.data?.f
DataField(ev, f) == IF ev.data = Undefined THEN Undefined ELSE ev.data[f]

AcceptsAny(h, ev) == TRUE

\* The filter of handleProjectUpdate, on the projectId its closure captured.
Accepts(h, ev) == ev.projectId = Number(h.projectId)

\* The block for update types 'all' and 'project'.
ApplyProject(w, ev) ==
    LET d == DataField(ev, "project") IN
    IF ev.updateType \in {"all", "project"} /\ ~Falsy(d)
    THEN [w EXCEPT !.project = IF ~Falsy(@)
                                THEN [@ EXCEPT !.name = d.name,
                                               !.description = OrElse(d.description, Null)]
                                ELSE Null,
                   !.localTitle = d.name,
                   !.localDescription = OrElse(d.description, Str(""))]
    ELSE w

ApplyPRDOrClear(w, h, ev) ==
    LET d == DataField(ev, "prd") IN
    IF ev.updateType \in {"all", "prd"} /\ ~Falsy(d)
    THEN [w EXCEPT !.prd = [tag |-> "prd", id |-> d.id, project_id |-> ev.projectId,
                            title |-> d.title, content |-> d.content, status |-> d.status],
                   !.content.prd = [title |-> d.title, content |-> d.content,
                                    status |-> d.status],
                   !.activeTab = IF ev.source = "ai-agent" /\ h.activeTab # "prd"
                                 THEN "prd" ELSE @]
    ELSE [w EXCEPT !.prd = Null, !.content.prd = EmptyContent.prd]

ApplyPRDKeepsTab(w, h, ev) ==
    LET d == DataField(ev, "prd") IN
    IF ev.updateType \in {"all", "prd"} /\ ~Falsy(d)
    THEN [w EXCEPT !.prd = [tag |-> "prd", id |-> d.id, project_id |-> ev.projectId,
                            title |-> d.title, content |-> d.content, status |-> d.status],
                   !.content.prd = [title |-> d.title, content |-> d.content,
                                    status |-> d.status]]
    ELSE w

\* The block for update types 'all' and 'prd'; the tab test reads the activeTab
\* the closure captured.  (id || 0 is the id: ids are positive.)
ApplyPRD(w, h, ev) ==
    LET d == DataField(ev, "prd") IN
    IF ev.updateType \in {"all", "prd"} /\ ~Falsy(d)
    THEN [w EXCEPT !.prd = [tag |-> "prd", id |-> d.id, project_id |-> ev.projectId,
                            title |-> d.title, content |-> d.content, status |-> d.status],
                   !.content.prd = [title |-> d.title, content |-> d.content,
                                    status |-> d.status],
                   !.activeTab = IF ev.source = "ai-agent" /\ h.activeTab # "prd"
                                 THEN "prd" ELSE @]
    ELSE w

\* The block for update types 'all' and 'spec'.
ApplySpec(w, ev) ==
    LET d == DataField(ev, "spec") IN
    IF ev.updateType \in {"all", "spec"} /\ ~Falsy(d)
    THEN [w EXCEPT !.spec = [tag |-> "spec", id |-> d.id, project_id |-> ev.projectId,
                             title |-> d.title, content |-> d.content,
                             technical_details |-> OrElse(d.technical_details, Null),
                             status |-> d.status],
                   !.content.spec = [title |-> d.title, content |-> d.content,
                                     technical_details |-> OrElse(d.technical_details, Str("")),
                                     status |-> d.status]]
    ELSE w

\* The names pushed on updateTypes, in the order of the three tests.
UpdatedNames(ev) ==
    (IF ~Falsy(DataField(ev, "project")) THEN <<"project">> ELSE <<>>)
        \o (IF ~Falsy(DataField(ev, "prd")) THEN <<"PRD">> ELSE <<>>)
        \o (IF ~Falsy(DataField(ev, "spec")) THEN <<"spec">> ELSE <<>>)

\* The toast for updates of the AI agent; names is what the description joins.
Notify(w, ev) ==
    IF ev.source = "ai-agent" /\ UpdatedNames(ev) # <<>>
    THEN [w EXCEPT !.toasts = Append(@, [title |-> "Updated by AI",
                                         names |-> UpdatedNames(ev)])]
    ELSE w

\* handleProjectUpdate(event), run by the closure h.
HandleProjectUpdate(w, h, ev) ==
    IF ~Accepts(h, ev) THEN w
    ELSE Notify(ApplySpec(ApplyPRD(ApplyProject(w, ev), h, ev), ev), ev)

CapturedKeepsProject(w, old, handle) ==
    [handle |-> handle,
     projectId |-> IF old.handle = 0 THEN w.projectId ELSE old.projectId,
     activeTab |-> w.activeTab]

\* The closure the subscription effect creates: handleProjectUpdate over the
\* projectId and activeTab of the render the effect belongs to.
Captured(w, old, handle) ==
    [handle |-> handle, projectId |-> w.projectId, activeTab |-> w.activeTab]

ResubscribeKeepsOld(old, c) ==
    /\ Len(handleCb) < MaxSubscribes
    /\ listeners' = Push(listeners, c)
    /\ handleCb' = Append(handleCb, c)
    /\ handleCalls' = Append(handleCalls, 0)
    /\ handleAt' = Append(handleAt, Len(emits))

\* The cleanup of the subscription effect followed by its next run: the old
\* closure's unsubscribe handle is invoked, a new closure is subscribed.  Effects
\* run in a task of their own, outside of every dispatch.
Resubscribe(old, c) ==
    /\ Len(handleCb) < MaxSubscribes
    /\ listeners' = Push(IF old = 0 THEN listeners ELSE RemoveListener(listeners, handleCb[old]), c)
    /\ handleCb' = Append(handleCb, c)
    /\ handleCalls' = Append(IF old = 0 THEN handleCalls
                             ELSE [handleCalls EXCEPT ![old] = @ + 1], 0)
    /\ handleAt' = Append(handleAt, Len(emits))

\* The synchronous start of loadData: the editor content, PRD and Spec are reset
\* and the project fetch is issued.
StartLoad(w) ==
    [w EXCEPT !.content = EmptyContent, !.prd = Null, !.spec = Null,
              !.loads = Append(@, [projectId |-> w.projectId, pc |-> "project",
                                   refreshesBefore |-> Len(refreshes)])]

\* The effects after the render of state w, prev being the state of the render
\* before: the load effect runs when projectId changed, the subscription effect
\* when projectId or activeTab changed.
RunEffects(prev, w) ==
    LET first == prev.handler.handle = 0
        loaded == IF first THEN StartLoad(w)
                  ELSE IF w.projectId # prev.handler.projectId THEN StartLoad(w)
                  ELSE w
        stale == IF first THEN TRUE
                 ELSE IF w.projectId # prev.handler.projectId THEN TRUE
                 ELSE w.activeTab # prev.handler.activeTab
    IN IF stale
       THEN /\ Resubscribe(prev.handler.handle, Len(handleCb) + 1)
            /\ ws' = [loaded EXCEPT !.handler = Captured(w, prev.handler, Len(handleCb) + 1)]
       ELSE /\ ws' = loaded
            /\ UNCHANGED <<listeners, handleCb, handleCalls, handleAt>>

\* The workspace is opened on project p, the URL hash selecting the tab.
WsMount(p, tab) ==
    /\ Idle
    /\ ~ws.mounted
    /\ RunEffects(WsFirstRender(p, tab), WsFirstRender(p, tab))
    /\ UNCHANGED <<backend, stack, emits, log, refreshes, entityRefreshes, chat>>

\* The route of the open workspace changes to project p.
WsProjectChanges(p) ==
    /\ Idle
    /\ ws.mounted
    /\ RouteParam(p) # ws.projectId
    /\ Len(ws.loads) < 1 + MaxProjectChanges
    /\ RunEffects(ws, [ws EXCEPT !.projectId = RouteParam(p)])
    /\ UNCHANGED <<backend, stack, emits, log, refreshes, entityRefreshes, chat>>

\* The user selects the other tab (onValueChange).
WsSelectTab(tab) ==
    /\ Idle
    /\ ws.mounted
    /\ tab # ws.activeTab
    /\ RunEffects(ws, [ws EXCEPT !.activeTab = tab])
    /\ UNCHANGED <<backend, stack, emits, log, refreshes, entityRefreshes, chat>>

\* The render that follows a setActiveTab made by handleProjectUpdate.
WsRerenders ==
    /\ Idle
    /\ ws.mounted
    /\ ws.activeTab # ws.handler.activeTab
    /\ RunEffects(ws, ws)
    /\ UNCHANGED <<backend, stack, emits, log, refreshes, entityRefreshes, chat>>

\* The workspace unmounts: the cleanup of the subscription effect invokes the
\* unsubscribe handle of the subscribed closure.  The state of the component is gone.
WsUnmount ==
    /\ Idle
    /\ ws.mounted
    /\ listeners' = RemoveListener(listeners, handleCb[ws.handler.handle])
    /\ handleCalls' = [handleCalls EXCEPT ![ws.handler.handle] = @ + 1]
    /\ ws' = WsUnmounted
    /\ UNCHANGED <<backend, handleCb, handleAt, stack, emits, log, refreshes, entityRefreshes, chat>>

\* loadData after projectApi.getOne settled: a failure leaves through the outer
\* catch block with a toast.
LoadedProject(w, k, o) ==
    IF Throws(o)
    THEN [w EXCEPT !.toasts = Append(@, [title |-> "Error", names |-> <<>>]),
                   !.loads[k].pc = "done"]
    ELSE LET d == BackendProject(Number(w.loads[k].projectId)) IN
         [w EXCEPT !.project = d,
                   !.localTitle = d.name,
                   !.localDescription = OrElse(d.description, Str("")),
                   !.loads[k].pc = "prd"]

\* loadData after prdApi.get settled.
LoadedPRD(w, k, o) ==
    IF Throws(o)
    THEN [w EXCEPT !.prd = Null, !.loads[k].pc = "spec"]
    ELSE LET d == BackendPRD(Number(w.loads[k].projectId)) IN
         [w EXCEPT !.prd = d,
                   !.content.prd = [title |-> d.title, content |-> OrElse(d.content, Str("")),
                                    status |-> d.status],
                   !.loads[k].pc = "spec"]

\* loadData after specApi.get settled.
LoadedSpec(w, k, o) ==
    IF Throws(o)
    THEN [w EXCEPT !.spec = Null, !.loads[k].pc = "done"]
    ELSE LET d == BackendSpec(Number(w.loads[k].projectId)) IN
         [w EXCEPT !.spec = d,
                   !.content.spec = [title |-> d.title, content |-> OrElse(d.content, Str("")),
                                     technical_details |-> OrElse(d.technical_details, Str("")),
                                     status |-> d.status],
                   !.loads[k].pc = "done"]

\* A fetch of the k-th loadData call settles and the call runs to its next await.
LoadStep(k, o) ==
    /\ Idle
    /\ ws.mounted
    /\ k \in DOMAIN ws.loads
    /\ ws.loads[k].pc # "done"
    /\ ws' = IF ws.loads[k].pc = "project" THEN LoadedProject(ws, k, o)
             ELSE IF ws.loads[k].pc = "prd" THEN LoadedPRD(ws, k, o)
             ELSE LoadedSpec(ws, k, o)
    /\ UNCHANGED <<backend, busVars, refreshes, entityRefreshes, chat>>

\* The events a client of the bus can emit for project p: every update type and
\* source, with every combination of entities in the payload or none at all.
AgentProject(p) ==
    [id |-> p, name |-> Str("new name"),
     description |-> IF p = 1 THEN Undefined ELSE Str("new description")]

AgentPRD(p) ==
    [id |-> p, title |-> Str("new title"), content |-> Str("new content"),
     status |-> Str("review")]

AgentSpec(p) ==
    [id |-> p, title |-> Str("new title"), content |-> Str("new content"),
     technical_details |-> IF p = 1 THEN Str("") ELSE Str("new details"),
     status |-> Str("review")]

Payloads(p) ==
    [project : {Undefined, AgentProject(p)}, prd : {Undefined, AgentPRD(p)},
     spec : {Undefined, AgentSpec(p)}] \cup {Undefined}

UpdateEvents ==
    UNION {[projectId : {p}, updateType : UpdateTypes, data : Payloads(p), source : Sources]
           : p \in Projects}

\* projectEventBus.emit(event), called by a task of a client.
EmitUpdate(ev) ==
    /\ Idle
    /\ Cardinality({e \in DOMAIN emits : emits[e].caller = 0}) < MaxUpdates
    /\ BeginEmit(ev, 0)
    /\ UNCHANGED <<backend, listeners, handleCb, handleCalls, handleAt, log, refreshes,
                   entityRefreshes, uiVars>>

\* The listener forEach is calling is the workspace's closure: handleProjectUpdate
\* runs to its end and returns.
WorkspaceHandlesUpdate ==
    /\ stack # <<>>
    /\ Top.running # 0
    /\ ws.mounted
    /\ ws.handler.handle # 0
    /\ Top.running = handleCb[ws.handler.handle]
    /\ ws' = HandleProjectUpdate(ws, ws.handler, emits[Top.ev].event)
    /\ stack' = [stack EXCEPT ![Len(stack)] = ListenerReturned(@)]
    /\ UNCHANGED <<backend, listeners, handleCb, handleCalls, handleAt, emits, log, refreshes,
                   entityRefreshes, chat>>

\* ------------------------------------------------------------------ savePRD, saveSpec
MaxSaves == 2

\* The data of the update or create call, from the editor content of the render
\* the handler belongs to.
SaveData(w, kind, op) ==
    LET c == w.content[kind]
        label == IF kind = "prd" THEN "PRD for " ELSE "Spec for "
        title == IF op = "create" THEN OrElse(c.title, Str(label \o w.project.name.v))
                 ELSE c.title
    IN IF kind = "prd"
       THEN [title |-> title, content |-> OrElse(c.content, Null), status |-> c.status]
       ELSE [title |-> title, content |-> OrElse(c.content, Null),
             technical_details |-> OrElse(c.technical_details, Null), status |-> c.status]

\* The document the backend answers an update or create call with.
SaveResponse(s) ==
    IF s.kind = "prd"
    THEN [tag |-> "prd", id |-> s.projectId, project_id |-> s.projectId,
          title |-> s.data.title, content |-> s.data.content, status |-> s.data.status]
    ELSE [tag |-> "spec", id |-> s.projectId, project_id |-> s.projectId,
          title |-> s.data.title, content |-> s.data.content,
          technical_details |-> s.data.technical_details, status |-> s.data.status]

\* savePRD / saveSpec up to the await: update when the held record is set, create
\* otherwise.  existed: whether the backend held the document when the call was made.
StartSave(w, kind, existed) ==
    LET op == IF ~Falsy(w[kind]) THEN "update" ELSE "create" IN
    [w EXCEPT !.saves = Append(@, [kind |-> kind, op |-> op, projectId |-> w.project.id,
                                   data |-> SaveData(w, kind, op), pc |-> "pending",
                                   existed |-> existed])]

\* savePRD / saveSpec after the await: the held record becomes the response; after
\* a create the title of the editor content becomes the created title.  A failure
\* only toasts.
AfterSave(w, k, o) ==
    LET s == w.saves[k]
        saved == SaveResponse(s)
    IN IF Throws(o)
       THEN [w EXCEPT !.saves[k].pc = "failed",
                      !.toasts = Append(@, [title |-> "Error", names |-> <<>>])]
       ELSE [w EXCEPT ![s.kind] = saved,
                      !.content[s.kind].title = IF s.op = "create" THEN saved.title ELSE @,
                      !.saves[k].pc = "saved",
                      !.toasts = Append(@, [title |-> IF s.kind = "prd" THEN "PRD saved"
                                                      ELSE "Spec saved",
                                            names |-> <<>>])]

\* The loading flag: set when loadData starts, reset in its finally block.  While
\* it is set the component renders the loading screen instead of the editors.
Loading(w) == \E k \in DOMAIN w.loads : w.loads[k].pc # "done"

\* The Save button of the editor of a document kind is clicked.
WsSave(kind) ==
    /\ Idle
    /\ ws.mounted
    /\ ~Loading(ws)
    /\ ~Falsy(ws.project)
    /\ Len(ws.saves) < MaxSaves
    /\ ws' = StartSave(ws, kind, <<kind, ws.project.id>> \in backend.documents)
    /\ UNCHANGED <<backend, busVars, refreshes, entityRefreshes, chat>>

\* The update or create call of the k-th save settles.  An update of a document
\* the backend does not hold fails; a successful call leaves the document stored.
SaveSettles(k, o) ==
    /\ Idle
    /\ ws.mounted
    /\ k \in DOMAIN ws.saves
    /\ ws.saves[k].pc = "pending"
    /\ IF ws.saves[k].op = "update"
          /\ <<ws.saves[k].kind, ws.saves[k].projectId>> \notin backend.documents
       THEN Throws(o) ELSE TRUE
    /\ ws' = AfterSave(ws, k, o)
    /\ backend' = IF Throws(o) THEN backend
                  ELSE [backend EXCEPT !.documents =
                            @ \cup {<<ws.saves[k].kind, ws.saves[k].projectId>>}]
    /\ UNCHANGED <<busVars, refreshes, entityRefreshes, chat>>

\* The agent, while it serves a chat call, stores a PRD or Spec for project p.
AgentCreatesDocument(kind, p) ==
    /\ <<kind, p>> \notin backend.documents
    /\ backend' = [backend EXCEPT !.documents = @ \cup {<<kind, p>>}]
    /\ UNCHANGED <<busVars, refreshes, entityRefreshes, uiVars>>

\* The answers the backend can give the fetch the k-th load waits for: a document
\* it holds is returned, one it does not hold is not found; any request can fail.
LoadAnswers(k, o) ==
    /\ ws.mounted
    /\ k \in DOMAIN ws.loads
    /\ ws.loads[k].pc \in {"prd", "spec"} =>
          (o = "notFound") # (<<ws.loads[k].pc, Number(ws.loads[k].projectId)>> \in backend.documents)
             \/ o = "error"

\* ------------------------------------------------------------------ ChatSidebar
ChatUnmounted == [mounted |-> FALSE]

\* parseInt(projectId) of the route parameter.
ParseInt(s) == Number(s)

\* !inputValue.trim()
Blank(text) == text \in {Str(""), Str(" ")}

\* What the user types for the k-th turn, or a text without content.
TurnText(k) == Str(ToString(k))
Inputs(k) == {Str(" "), TurnText(k)}

WelcomeMessage ==
    [id |-> <<"welcome", 0>>, role |-> "assistant", content |-> Str("welcome"),
     type |-> Str("welcome")]

\* chatApi.convertToApiFormat: the body of a create-message call.
ConvertToApiFormat(m) ==
    [role |-> m.role, content |-> m.content, message_type |-> OrElse(m.type, Str("message"))]

\* chatApi.convertFromApiFormat of the row with id n.
ConvertFromApiFormat(row, n) ==
    [id |-> <<"row", n>>, role |-> row.role, content |-> row.content,
     type |-> row.message_type]

\* The rows the backend holds for the project before the sidebar opens.
PriorRows(n) ==
    [i \in 1..n |-> [role |-> "user", content |-> Str("earlier"), message_type |-> Str("message")]]

\* messages.map(...) of handleSendMessage: role and content of each message
\* (timestamp and metadata are left out of the model).
ChatHistoryFor(msgs) == [i \in DOMAIN msgs |-> [role |-> msgs[i].role, content |-> msgs[i].content]]

\* An entry of the history of what the sidebar did: a local append, a call of a
\* remote client or of refreshProjectData, or the return of the agent call.
Step(op, turn, role, arg) == [op |-> op, turn |-> turn, role |-> role, arg |-> arg]

\* The bodies of the create-message calls the sidebar has issued, in call order.
Created(c) ==
    LET made == SelectSeq(c.trace, LAMBDA st : st.op = "createMessage")
    IN [i \in DOMAIN made |-> made[i].arg.body]

\* The bodies of the create-message calls the sidebar has issued for project p.
CreatedFor(c, p) ==
    LET made == SelectSeq(c.trace, LAMBDA st : st.op = "createMessage" /\ st.arg.projectId = p)
    IN [i \in DOMAIN made |-> made[i].arg.body]

\* The sidebar opens on project p: the initialization effect starts initializeChat
\* (the history request), checkAgentStatus, loadExistingPRD and loadExistingSpec.
\* The templates and the chat context, which do not touch the transcript or the
\* held documents, are left out.
ChatMount(p, prior) ==
    /\ Idle
    /\ ~chat.mounted
    /\ chat' = [mounted |-> TRUE, projectId |-> RouteParam(p),
                messages |-> <<>>, inputValue |-> Str(""), isLoading |-> FALSE,
                agentStatus |-> "checking",
                existingPRD |-> Str(""), existingSpec |-> Str(""),
                history |-> [pc |-> "fetch", prior |-> prior],
                health |-> "pending",
                docs |-> [prd |-> "pending", spec |-> "pending"],
                shown |-> <<RouteParam(p)>>,
                turns |-> <<>>, trace |-> <<>>, toasts |-> <<>>]
    /\ UNCHANGED <<backend, busVars, refreshes, entityRefreshes, ws>>

\* checkAgentStatus after the health check settled.
HealthSettles(o) ==
    /\ Idle
    /\ chat.mounted
    /\ chat.health = "pending"
    /\ chat' = IF Throws(o)
               THEN [chat EXCEPT !.health = "done", !.agentStatus = "offline",
                                 !.toasts = Append(@, "AI Agent Offline")]
               ELSE [chat EXCEPT !.health = "done", !.agentStatus = "online"]
    /\ UNCHANGED <<backend, busVars, refreshes, entityRefreshes, ws>>

\* initializeChat after getRecentMessages settled.  The response holds the rows
\* the backend held when the request was sent and the rows of the first n
\* create-message calls made since, n depending on when the backend served the
\* request.  (The limit of 100 rows is above every bound of the model.)
HistorySettles(o, n) ==
    /\ Idle
    /\ chat.mounted
    /\ chat.history.pc = "fetch"
    /\ n <= Len(CreatedFor(chat, ParseInt(chat.projectId)))
    /\ chat' =
        LET rows == PriorRows(chat.history.prior)
                       \o SubSeq(CreatedFor(chat, ParseInt(chat.projectId)), 1, n) IN
        IF Throws(o)
        THEN [chat EXCEPT !.messages = <<WelcomeMessage>>, !.history.pc = "done"]
        ELSE IF rows = <<>>
        THEN [chat EXCEPT !.messages = <<WelcomeMessage>>, !.history.pc = "welcomeSave",
                          !.trace = Append(@, Step("createMessage", 0, "assistant",
                                                   [projectId |-> ParseInt(chat.projectId),
                                                    body |-> ConvertToApiFormat(WelcomeMessage)]))]
        ELSE [chat EXCEPT !.messages = [i \in DOMAIN rows |-> ConvertFromApiFormat(rows[i], i)],
                          !.history.pc = "done"]
    /\ UNCHANGED <<backend, busVars, refreshes, entityRefreshes, ws>>

\* initializeChat after the create-message call for the welcome message settled;
\* a failure reaches the catch block, which sets the transcript to the welcome message.
WelcomeSaveSettles(o) ==
    /\ Idle
    /\ chat.mounted
    /\ chat.history.pc = "welcomeSave"
    /\ chat' =
        IF Throws(o)
        THEN [chat EXCEPT !.messages = <<WelcomeMessage>>, !.history.pc = "done"]
        ELSE [chat EXCEPT !.history.pc = "done"]
    /\ UNCHANGED <<backend, busVars, refreshes, entityRefreshes, ws>>

\* loadExistingPRD / loadExistingSpec after the fetch settled: the content of the
\* document, or the empty text when there is none.
ExistingDocSettles(kind, o) ==
    /\ Idle
    /\ chat.mounted
    /\ chat.docs[kind] = "pending"
    /\ chat' =
        LET text == IF Throws(o) THEN Str("")
                    ELSE OrElse(BackendEntity(kind, ParseInt(chat.projectId)).content, Str(""))
        IN IF kind = "prd"
           THEN [chat EXCEPT !.existingPRD = text, !.docs.prd = "done"]
           ELSE [chat EXCEPT !.existingSpec = text, !.docs.spec = "done"]
    /\ UNCHANGED <<backend, busVars, refreshes, entityRefreshes, ws>>

\* The route of the open sidebar changes to project q once its chat is
\* initialized: the initialization effect runs again, for q.  The state of the
\* component, the turn in flight included, stays.
ChatProjectChanges(q, prior) ==
    /\ Idle
    /\ chat.mounted
    /\ RouteParam(q) # chat.projectId
    /\ Len(chat.shown) < 1 + MaxProjectChanges
    /\ chat.history.pc = "done"
    /\ chat' = [chat EXCEPT !.projectId = RouteParam(q),
                            !.shown = Append(@, RouteParam(q)),
                            !.history = [pc |-> "fetch", prior |-> prior],
                            !.health = "pending",
                            !.docs = [prd |-> "pending", spec |-> "pending"]]
    /\ UNCHANGED <<backend, busVars, refreshes, entityRefreshes, ws>>

\* The user edits the input (onChange).
TypeInput(text) ==
    /\ Idle
    /\ chat.mounted
    /\ Len(chat.turns) < MaxTurns
    /\ text \in Inputs(Len(chat.turns) + 1)
    /\ text # chat.inputValue
    /\ chat' = [chat EXCEPT !.inputValue = text]
    /\ UNCHANGED <<backend, busVars, refreshes, entityRefreshes, ws>>

\* handleSendMessage up to its first await: the user message is appended, the
\* input cleared, isLoading set, and saveMessageToBackend issues the create-message
\* call.  The closure keeps the messages, inputValue and projectId of its render.
StartTurn(c) ==
    LET t == Len(c.turns) + 1
        userMessage == [id |-> <<"local", 2 * t>>, role |-> "user", content |-> c.inputValue,
                        type |-> Undefined]
    IN [c EXCEPT !.messages = Append(@, userMessage),
                 !.inputValue = Str(""),
                 !.isLoading = TRUE,
                 !.turns = Append(@, [pc |-> "saveUser", messages |-> c.messages,
                                      inputValue |-> c.inputValue, projectId |-> c.projectId,
                                      reply |-> Undefined, refresh |-> 0]),
                 !.trace = @ \o <<Step("append", t, "user", userMessage),
                                  Step("createMessage", t, "user",
                                       [projectId |-> ParseInt(c.projectId),
                                        body |-> ConvertToApiFormat(userMessage)])>>]

\* After the create-message call of the user message settled (a failure is only
\* logged): chat_history is built from the closure's messages and the agent is called.
AfterUserSaved(c, t, emitted) ==
    [c EXCEPT !.turns[t].pc = "agent",
              !.trace = Append(@, Step("chat", t, "",
                                       [message |-> c.turns[t].inputValue,
                                        project_id |-> ParseInt(c.turns[t].projectId),
                                        chat_history |-> ChatHistoryFor(c.turns[t].messages),
                                        emitted |-> emitted]))]

AssistantMessage(t, type) ==
    [id |-> <<"local", 2 * t + 1>>, role |-> "assistant", content |-> Str("reply"),
     type |-> Str(type)]

ErrorMessage(t) ==
    [id |-> <<"local", 2 * t + 1>>, role |-> "assistant", content |-> Str("sorry"),
     type |-> Str("error")]

AfterAgentReplyUnsaved(c, t, type, emitted) ==
    [c EXCEPT !.messages = Append(@, AssistantMessage(t, type)),
              !.turns[t].pc = "saveAssistant",
              !.turns[t].reply = Str(type),
              !.trace = @ \o <<Step("chatReturned", t, "", [emitted |-> emitted]),
                               Step("append", t, "assistant", AssistantMessage(t, type))>>]

\* After the agent replied: the assistant message is appended and
\* saveMessageToBackend issues its create-message call.
AfterAgentReply(c, t, type, emitted) ==
    [c EXCEPT !.messages = Append(@, AssistantMessage(t, type)),
              !.turns[t].pc = "saveAssistant",
              !.turns[t].reply = Str(type),
              !.trace = @ \o <<Step("chatReturned", t, "", [emitted |-> emitted]),
                               Step("append", t, "assistant", AssistantMessage(t, type)),
                               Step("createMessage", t, "assistant",
                                    [projectId |-> ParseInt(c.turns[t].projectId),
                                     body |-> ConvertToApiFormat(AssistantMessage(t, type))])>>]

AfterAgentFailurePersisted(c, t) ==
    [c EXCEPT !.messages = Append(@, ErrorMessage(t)),
              !.turns[t].pc = "done",
              !.isLoading = FALSE,
              !.toasts = Append(@, "Chat Error"),
              !.trace = @ \o <<Step("chatFailed", t, "", Undefined),
                               Step("append", t, "assistant", ErrorMessage(t)),
                               Step("createMessage", t, "assistant",
                                    [projectId |-> ParseInt(c.turns[t].projectId),
                                     body |-> ConvertToApiFormat(ErrorMessage(t))])>>]

\* After the agent call failed: the outer catch block appends the substitute
\* message and toasts, the finally block resets isLoading.
AfterAgentFailure(c, t) ==
    [c EXCEPT !.messages = Append(@, ErrorMessage(t)),
              !.turns[t].pc = "done",
              !.isLoading = FALSE,
              !.toasts = Append(@, "Chat Error"),
              !.trace = @ \o <<Step("chatFailed", t, "", Undefined),
                               Step("append", t, "assistant", ErrorMessage(t))>>]

\* After the create-message call of the assistant message settled:
\* refreshProjectData is called, as the i-th refresh call.
AfterAssistantSaved(c, t, i) ==
    [c EXCEPT !.turns[t].pc = "refresh",
              !.turns[t].refresh = i,
              !.trace = Append(@, Step("refresh", t, "", ParseInt(c.turns[t].projectId)))]

\* After refreshProjectData returned its result: the documents held for the chat
\* context are updated, the toasts are shown, the finally block resets isLoading.
AfterRefresh(c, t, result) ==
    [c EXCEPT !.existingPRD = IF ~Falsy(result.prd) THEN OrElse(result.prd.content, Str(""))
                              ELSE @,
              !.existingSpec = IF ~Falsy(result.spec) THEN OrElse(result.spec.content, Str(""))
                               ELSE @,
              !.toasts = @ \o <<"Project Updated">>
                           \o (IF c.turns[t].reply = Str("clarification")
                               THEN <<"More Information Needed">> ELSE <<>>),
              !.isLoading = FALSE,
              !.turns[t].pc = "done"]

ReplyTypes == {"message", "clarification"}

HandleSendMessageWhileLoading ==
    /\ Idle
    /\ chat.mounted
    /\ Len(chat.turns) < MaxTurns
    /\ ~Blank(chat.inputValue)
    /\ chat.agentStatus = "online"
    /\ chat' = StartTurn(chat)
    /\ UNCHANGED <<backend, busVars, refreshes, entityRefreshes, ws>>

\* handleSendMessage is called (Enter or the send button).
HandleSendMessage ==
    /\ Idle
    /\ chat.mounted
    /\ Len(chat.turns) < MaxTurns
    /\ ~Blank(chat.inputValue)
    /\ ~chat.isLoading
    /\ chat.agentStatus = "online"
    /\ chat' = StartTurn(chat)
    /\ UNCHANGED <<backend, busVars, refreshes, entityRefreshes, ws>>

\* The create-message call of the user message settles; a failure is only logged.
SaveUserSettles(t, o) ==
    /\ Idle
    /\ o \in FetchOutcomes
    /\ chat.mounted
    /\ t \in DOMAIN chat.turns
    /\ chat.turns[t].pc = "saveUser"
    /\ chat' = AfterUserSaved(chat, t, Len(emits))
    /\ UNCHANGED <<backend, busVars, refreshes, entityRefreshes, ws>>

\* agentsApi.chat resolves with the reply.
AgentReplies(t, type) ==
    /\ Idle
    /\ chat.mounted
    /\ t \in DOMAIN chat.turns
    /\ chat.turns[t].pc = "agent"
    /\ chat' = AfterAgentReply(chat, t, type, Len(emits))
    /\ UNCHANGED <<backend, busVars, refreshes, entityRefreshes, ws>>

\* agentsApi.chat rejects: the response is not ok or the request fails.
AgentFails(t) ==
    /\ Idle
    /\ chat.mounted
    /\ t \in DOMAIN chat.turns
    /\ chat.turns[t].pc = "agent"
    /\ chat' = AfterAgentFailure(chat, t)
    /\ UNCHANGED <<backend, busVars, refreshes, entityRefreshes, ws>>

\* The create-message call of the assistant message settles; a failure is only logged.
SaveAssistantSettles(t, o) ==
    /\ Idle
    /\ o \in FetchOutcomes
    /\ chat.mounted
    /\ t \in DOMAIN chat.turns
    /\ chat.turns[t].pc = "saveAssistant"
    /\ chat' = AfterAssistantSaved(chat, t, Len(refreshes) + 1)
    /\ refreshes' = Append(refreshes, NewRefresh(ParseInt(chat.turns[t].projectId)))
    /\ UNCHANGED <<backend, busVars, entityRefreshes, ws>>

\* The awaited refreshProjectData call of the turn has returned.
TurnRefreshReturns(t) ==
    /\ Idle
    /\ chat.mounted
    /\ t \in DOMAIN chat.turns
    /\ chat.turns[t].pc = "refresh"
    /\ refreshes[chat.turns[t].refresh].pc = "done"
    /\ chat' = AfterRefresh(chat, t, refreshes[chat.turns[t].refresh].result)
    /\ UNCHANGED <<backend, busVars, refreshes, entityRefreshes, ws>>

\* ------------------------------------------------------------------ chat messages (backend)
MaxMessages == 3
MaxClock == 2
MaxLimit == 2

\* The limit getRecentMessages uses when the query has none.
DefaultLimit == 50

Min(a, b) == IF a <= b THEN a ELSE b

Reverse(s) == [i \in 1..Len(s) |-> s[Len(s) + 1 - i]]

\* The table is empty, the clock that fills created_at shows its first value, no
\* request has been answered, no project has a PRD or Spec.
BackendEmpty == [chat_messages |-> <<>>, now |-> 1, response |-> Undefined, documents |-> {}]

\* data.metadata ? JSON.stringify(data.metadata) : null
MetadataJson(metadata) == IF Falsy(metadata) THEN Null ELSE Str("{}")

\* message.metadata ? JSON.parse(message.metadata) : null
ParseMetadata(text) == IF Falsy(text) THEN Null ELSE [tag |-> "object"]

\* ChatRepository.create: the INSERT names no created_at, the table fills it from
\* its clock; the id is the next row id.
InsertMessage(table, p, metadata, now) ==
    Append(table, [id |-> Len(table) + 1, project_id |-> p,
                   metadata |-> MetadataJson(metadata), created_at |-> now])

\* WHERE project_id = ?
ProjectRows(table, p) == SelectSeq(table, LAMBDA r : r.project_id = p)

\* ORDER BY created_at DESC: the arrangements of the rows in which created_at
\* never increases.  The order among rows of equal created_at is the database's.
OrderByCreatedAtDesc(rows) ==
    LET n == Len(rows)
        perms == {f \in [1..n -> 1..n] : \A i, j \in 1..n : f[i] = f[j] => i = j}
    IN {q \in {[i \in 1..n |-> rows[f[i]]] : f \in perms} :
            \A i \in 1..(n - 1) : q[i].created_at >= q[i + 1].created_at}

\* LIMIT ?
Limit(q, n) == SubSeq(q, 1, Min(n, Len(q)))

\* ChatRepository.getRecentByProjectId: the pages the query can return.
GetRecentByProjectId(table, p, limit) ==
    {Limit(q, limit) : q \in OrderByCreatedAtDesc(ProjectRows(table, p))}

\* ChatRepository.getCountByProjectId
GetCountByProjectId(table, p) == Len(ProjectRows(table, p))

\* The limit texts a request can carry in its query, or none.
QueryLimits == {Undefined} \cup {Str(ToString(n)) : n \in 0..MaxLimit}

\* req.query.limit ? parseInt(req.query.limit) : 50
LimitOf(q) ==
    IF Falsy(q) THEN DefaultLimit
    ELSE CHOOSE n \in 0..MaxLimit : Str(ToString(n)) = q

\* The body of the 200 response: the page reversed, each metadata parsed.
RecentResponse(p, limit, page, total) ==
    [status |-> 200, projectId |-> p, limit |-> limit,
     messages |-> [i \in 1..Len(page) |->
                     [Reverse(page)[i] EXCEPT !.metadata = ParseMetadata(@)]],
     total |-> total]

\* POST /projects/:projectId/chat/messages with a valid role and content.
CreateMessage(p, metadata) ==
    /\ Len(backend.chat_messages) < MaxMessages
    /\ backend' = [backend EXCEPT
                      !.chat_messages = InsertMessage(@, p, metadata, backend.now)]
    /\ UNCHANGED <<busVars, refreshes, entityRefreshes, uiVars>>

\* The clock that fills created_at moves to its next value.
ClockTicks ==
    /\ backend.now < MaxClock
    /\ backend' = [backend EXCEPT !.now = @ + 1]
    /\ UNCHANGED <<busVars, refreshes, entityRefreshes, uiVars>>

\* GET /projects/:projectId/chat/messages/recent
GetRecentMessages(id, q) ==
    /\ IF ParseInt(id) = NaN
       THEN backend' = [backend EXCEPT !.response = [status |-> 400]]
       ELSE \E page \in GetRecentByProjectId(backend.chat_messages, ParseInt(id), LimitOf(q)) :
               backend' = [backend EXCEPT !.response =
                             RecentResponse(ParseInt(id), LimitOf(q), page,
                                 GetCountByProjectId(backend.chat_messages, ParseInt(id)))]
    /\ UNCHANGED <<busVars, refreshes, entityRefreshes, uiVars>>

\* ------------------------------------------------------------------ specification
Init ==
    /\ listeners = <<>>
    /\ handleCb = <<>>
    /\ handleCalls = <<>>
    /\ handleAt = <<>>
    /\ stack = <<>>
    /\ emits = <<>>
    /\ log = <<>>
    /\ refreshes = <<>>
    /\ entityRefreshes = <<>>
    /\ ws = WsUnmounted
    /\ chat = ChatUnmounted
    /\ backend = BackendEmpty

NextBus ==
    \/ \E c \in Callbacks : Subscribe(c)
    \/ \E h \in 1..MaxSubscribes : Unsubscribe(h)
    \/ \E p \in Projects : EmitFullRefresh(p)
    \/ ForEachCall
    \/ ForEachSkip
    \/ CallbackReturns
    \/ CallbackThrows
    \/ EmitReturns

SpecBus == Init /\ [][NextBus]_vars

\* The refresh orchestrator with listeners on the bus that return or throw.
NextRefresh ==
    \/ SurfaceSubscribes
    \/ \E p \in Projects : RefreshProjectData(p)
    \/ \E i \in 1..MaxRefreshes, o \in FetchOutcomes : ProjectFetchSettles(i, o)
    \/ \E i \in 1..MaxRefreshes, o \in FetchOutcomes : PRDFetchSettles(i, o)
    \/ \E i \in 1..MaxRefreshes, o \in FetchOutcomes : SpecFetchSettles(i, o)
    \/ ForEachCall
    \/ CallbackReturns
    \/ CallbackThrows
    \/ EmitReturns

SpecRefresh == Init /\ [][NextRefresh]_vars

\* The single-entity refreshes with listeners on the bus that return or throw.
NextEntityRefresh ==
    \/ SurfaceSubscribes
    \/ \E p \in Projects : RefreshPRDData(p)
    \/ \E p \in Projects : RefreshSpecData(p)
    \/ \E j \in 1..MaxEntityRefreshes, o \in FetchOutcomes : EntityFetchRejects(j, o)
    \/ \E j \in 1..MaxEntityRefreshes : EntityFetchResolves(j)
    \/ ForEachCall
    \/ CallbackReturns
    \/ CallbackThrows
    \/ EmitReturns

SpecEntityRefresh == Init /\ [][NextEntityRefresh]_vars

\* A workspace open on one project, with clients that emit events on the bus.
NextWorkspace ==
    \/ \E p \in Projects, tab \in Tabs : WsMount(p, tab)
    \/ \E tab \in Tabs : WsSelectTab(tab)
    \/ WsRerenders
    \/ \E k \in 1..(1 + MaxProjectChanges), o \in FetchOutcomes : LoadStep(k, o)
    \/ \E ev \in UpdateEvents : EmitUpdate(ev)
    \/ ForEachCall
    \/ WorkspaceHandlesUpdate
    \/ EmitReturns

SpecWorkspace == Init /\ [][NextWorkspace]_vars

\* A workspace that is mounted, moved between projects and tabs, and unmounted,
\* while clients emit updates.
NextWorkspaceLifecycle ==
    \/ \E p \in Projects, tab \in Tabs : WsMount(p, tab)
    \/ \E p \in Projects : WsProjectChanges(p)
    \/ \E tab \in Tabs : WsSelectTab(tab)
    \/ WsRerenders
    \/ WsUnmount
    \/ \E ev \in UpdateEvents : EmitUpdate(ev)
    \/ ForEachCall
    \/ WorkspaceHandlesUpdate
    \/ EmitReturns

SpecWorkspaceLifecycle == Init /\ [][NextWorkspaceLifecycle]_vars

\* A workspace whose documents are saved while the agent stores documents for
\* its project and updates of the agent for its project are emitted.
AgentEvents == {ev \in UpdateEvents : ev.source = "ai-agent" /\ ev.updateType = "all"}

NextWorkspaceSave ==
    \/ \E p \in Projects, tab \in Tabs : WsMount(p, tab)
    \/ WsRerenders
    \/ \E k \in 1..(1 + MaxProjectChanges), o \in FetchOutcomes : LoadAnswers(k, o) /\ LoadStep(k, o)
    \/ \E kind \in Tabs : ws.mounted /\ AgentCreatesDocument(kind, Number(ws.projectId))
    \/ \E kind \in Tabs : WsSave(kind)
    \/ \E k \in 1..MaxSaves, o \in {"ok", "error"} : SaveSettles(k, o)
    \/ \E ev \in AgentEvents : ws.mounted /\ Accepts(ws.handler, ev) /\ EmitUpdate(ev)
    \/ ForEachCall
    \/ WorkspaceHandlesUpdate
    \/ EmitReturns

SpecWorkspaceSave == Init /\ [][NextWorkspaceSave]_vars

\* A workspace that is moved to another project while refreshProjectData calls run.
NextWorkspaceRefresh ==
    \/ \E p \in Projects, tab \in Tabs : WsMount(p, tab)
    \/ \E p \in Projects : WsProjectChanges(p)
    \/ \E k \in 1..(1 + MaxProjectChanges), o \in FetchOutcomes : LoadStep(k, o)
    \/ \E p \in Projects : RefreshProjectData(p)
    \/ \E i \in 1..MaxRefreshes, o \in FetchOutcomes : ProjectFetchSettles(i, o)
    \/ \E i \in 1..MaxRefreshes, o \in FetchOutcomes : PRDFetchSettles(i, o)
    \/ \E i \in 1..MaxRefreshes, o \in FetchOutcomes : SpecFetchSettles(i, o)
    \/ ForEachCall
    \/ WorkspaceHandlesUpdate
    \/ EmitReturns

SpecWorkspaceRefresh == Init /\ [][NextWorkspaceRefresh]_vars

\* A chat sidebar whose project changes while it is open, during or after a turn.
MaxSwitchTurns == 1

NextChatSwitch ==
    \/ \E p \in Projects : ChatMount(p, 0)
    \/ \E q \in Projects, prior \in 0..MaxPrior : ChatProjectChanges(q, prior)
    \/ \E o \in {"ok", "error"} : HealthSettles(o)
    \/ \E o \in {"ok", "error"}, n \in 0..1 : HistorySettles(o, n)
    \/ \E o \in {"ok", "error"} : WelcomeSaveSettles(o)
    \/ \E kind \in {"prd", "spec"}, o \in {"ok", "error"} : ExistingDocSettles(kind, o)
    \/ \E text \in Inputs(1) : chat.mounted /\ chat.turns = <<>> /\ TypeInput(text)
    \/ chat.mounted /\ Len(chat.turns) < MaxSwitchTurns /\ HandleSendMessage
    \/ \E t \in 1..MaxSwitchTurns, o \in {"ok", "error"} : SaveUserSettles(t, o)
    \/ \E t \in 1..MaxSwitchTurns, type \in ReplyTypes : AgentReplies(t, type)
    \/ \E t \in 1..MaxSwitchTurns : AgentFails(t)
    \/ \E t \in 1..MaxSwitchTurns, o \in {"ok", "error"} : SaveAssistantSettles(t, o)
    \/ \E i \in 1..MaxSwitchTurns, o \in {"ok", "error"} : ProjectFetchSettles(i, o)
    \/ \E i \in 1..MaxSwitchTurns, o \in {"ok", "error"} : PRDFetchSettles(i, o)
    \/ \E i \in 1..MaxSwitchTurns, o \in {"ok", "error"} : SpecFetchSettles(i, o)
    \/ EmitReturns
    \/ \E t \in 1..MaxSwitchTurns : TurnRefreshReturns(t)

SpecChatSwitch == Init /\ [][NextChatSwitch]_vars

\* The chat message routes of the backend.
NextChatStore ==
    \/ \E p \in Projects, metadata \in {Undefined, [tag |-> "object"]} : CreateMessage(p, metadata)
    \/ ClockTicks
    \/ \E id \in {RouteParam(p) : p \in Projects} \cup {"x"}, q \in QueryLimits :
          GetRecentMessages(id, q)

SpecChatStore == Init /\ [][NextChatStore]_vars

\* A chat sidebar open on one project.
NextChat ==
    \/ \E p \in Projects, prior \in 0..MaxPrior : ChatMount(p, prior)
    \/ \E o \in FetchOutcomes : HealthSettles(o)
    \/ \E o \in FetchOutcomes, n \in 0..(2 * MaxTurns + 1) : HistorySettles(o, n)
    \/ \E o \in FetchOutcomes : WelcomeSaveSettles(o)
    \/ \E k \in 1..MaxTurns : \E text \in Inputs(k) : TypeInput(text)
    \/ HandleSendMessage
    \/ \E t \in 1..MaxTurns, o \in FetchOutcomes : SaveUserSettles(t, o)
    \/ \E t \in 1..MaxTurns, type \in ReplyTypes : AgentReplies(t, type)
    \/ \E t \in 1..MaxTurns : AgentFails(t)
    \/ \E t \in 1..MaxTurns, o \in FetchOutcomes : SaveAssistantSettles(t, o)
    \/ \E i \in 1..MaxTurns, o \in FetchOutcomes : ProjectFetchSettles(i, o)
    \/ \E i \in 1..MaxTurns, o \in FetchOutcomes : PRDFetchSettles(i, o)
    \/ \E i \in 1..MaxTurns, o \in FetchOutcomes : SpecFetchSettles(i, o)
    \/ EmitReturns
    \/ \E t \in 1..MaxTurns : TurnRefreshReturns(t)

SpecChat == Init /\ [][NextChat]_vars

\* The chat sidebar when every request it has issued is answered and every
\* continuation that can run does run: the browser settles each fetch with a
\* response or a network error, and the event loop runs the code after an await.
ChatFairness ==
    /\ WF_vars(\E t \in 1..MaxTurns, o \in FetchOutcomes : SaveUserSettles(t, o))
    /\ WF_vars(\E t \in 1..MaxTurns, type \in ReplyTypes : AgentReplies(t, type) \/ AgentFails(t))
    /\ WF_vars(\E t \in 1..MaxTurns, o \in FetchOutcomes : SaveAssistantSettles(t, o))
    /\ WF_vars(\E i \in 1..MaxTurns, o \in FetchOutcomes : ProjectFetchSettles(i, o))
    /\ WF_vars(\E i \in 1..MaxTurns, o \in FetchOutcomes : PRDFetchSettles(i, o))
    /\ WF_vars(\E i \in 1..MaxTurns, o \in FetchOutcomes : SpecFetchSettles(i, o))
    /\ WF_vars(EmitReturns)
    /\ WF_vars(\E t \in 1..MaxTurns : TurnRefreshReturns(t))

\* A chat sidebar that opens on a project without earlier messages; a fetch of a
\* refresh is answered with the entity or fails.
NextChatTurns ==
    \/ \E p \in Projects : ChatMount(p, 0)
    \/ \E o \in FetchOutcomes : HealthSettles(o)
    \/ \E o \in FetchOutcomes : HistorySettles(o, 0)
    \/ \E o \in FetchOutcomes : WelcomeSaveSettles(o)
    \/ \E k \in 1..MaxTurns : \E text \in Inputs(k) : TypeInput(text)
    \/ HandleSendMessage
    \/ \E t \in 1..MaxTurns, o \in FetchOutcomes : SaveUserSettles(t, o)
    \/ \E t \in 1..MaxTurns, type \in ReplyTypes : AgentReplies(t, type)
    \/ \E t \in 1..MaxTurns : AgentFails(t)
    \/ \E t \in 1..MaxTurns, o \in FetchOutcomes : SaveAssistantSettles(t, o)
    \/ \E i \in 1..MaxTurns, o \in {"ok", "error"} : ProjectFetchSettles(i, o)
    \/ \E i \in 1..MaxTurns, o \in {"ok", "error"} : PRDFetchSettles(i, o)
    \/ \E i \in 1..MaxTurns, o \in {"ok", "error"} : SpecFetchSettles(i, o)
    \/ EmitReturns
    \/ \E t \in 1..MaxTurns : TurnRefreshReturns(t)

SpecChatFair == Init /\ [][NextChatTurns]_vars /\ ChatFairness

\* ------------------------------------------------------------------ properties of the bus
\* The callbacks invoked with event e, in the order of invocation.
DeliveredCbs(e) ==
    LET d == SelectSeq(log, LAMBDA r : r.ev = e)
    IN [i \in DOMAIN d |-> d[i].cb]

\* The subscriptions that are registered according to the contract of subscribe,
\* given the invocation counts of the handles: those whose handle was never invoked,
\* in the order of the subscribe calls.
LiveHandles(calls) == SelectSeq([h \in DOMAIN calls |-> h], LAMBDA h : calls[h] = 0)

Registered(calls) ==
    LET hs == LiveHandles(calls)
    IN [i \in DOMAIN hs |-> handleCb[hs[i]]]

\* All subscribe and unsubscribe calls before emit e returned were made outside of a dispatch.
QuietUpTo(e) == \A d \in 1..e : emits[d].mutated = "none"

\* C1: with subscribe/unsubscribe calls made only outside of a dispatch, an emit
\* invokes exactly the registered entries (those subscribed and not unsubscribed
\* through their own handle), once each, in the order they were subscribed.
C1_EmitInvokesRegisteredInOrder ==
    \A e \in DOMAIN emits :
        (emits[e].done /\ QuietUpTo(e)) => DeliveredCbs(e) = Registered(emits[e].calls0)

\* The part of C1 that the code satisfies: when no callback reference has had a
\* handle invoked while another subscription of it existed, delivery is exact.
C1_HoldsWithoutDuplicates ==
    \A e \in DOMAIN emits :
        (/\ emits[e].done /\ QuietUpTo(e)
         /\ \A g, h \in DOMAIN emits[e].calls0 : g # h => handleCb[g] # handleCb[h])
        => DeliveredCbs(e) = Registered(emits[e].calls0)

\* C2: a listener that raises an error does not stop the dispatch: emit walks all
\* the indices forEach was to walk and never rethrows; when the list was not touched
\* during the dispatch every listener, also those after the failing one, was invoked.
C2_ListenerErrorIsIsolated ==
    \A e \in DOMAIN emits :
        emits[e].done =>
            /\ ~emits[e].rethrown
            /\ emits[e].visited = Len(emits[e].listeners0)
            /\ (emits[e].mutated = "none" /\ \E i \in DOMAIN log : log[i].ev = e /\ log[i].threw)
                => DeliveredCbs(e) = emits[e].listeners0

\* A finished emit in which a listener threw and a later listener was still invoked.
C2_Witness ==
    \E e \in DOMAIN emits :
        /\ emits[e].done /\ ~emits[e].rethrown
        /\ \E i, j \in DOMAIN log :
            i < j /\ log[i].ev = e /\ log[j].ev = e /\ log[i].threw

C4_NoInvocationAfterUnsubscribe ==
    [][\A h \in DOMAIN handleCb :
          (/\ handleCalls[h] >= 1
           /\ Count(handleCb, handleCb[h]) = 1
           /\ Len(log') > Len(log))
          => log'[Len(log')].cb # handleCb[h]]_vars

\* An emit that began after the handle of a once-subscribed callback was invoked
\* has finished and has invoked other listeners.
C4_Witness ==
    \E e \in DOMAIN emits : \E h \in DOMAIN emits[e].calls0 :
        /\ emits[e].done
        /\ emits[e].calls0[h] >= 1
        /\ Count(handleCb, handleCb[h]) = 1
        /\ DeliveredCbs(e) # <<>>

\* C5: invoking an unsubscribe handle that has been invoked before leaves the
\* listener list unchanged.
C5_SecondUnsubscribeIsNoOp ==
    [][\A h \in DOMAIN handleCalls :
          (handleCalls[h] >= 1 /\ handleCalls'[h] > handleCalls[h]) => listeners' = listeners]_vars

\* Subscribe calls made with callback c, and those of them whose handle was invoked,
\* among the first n subscribe calls with the handle invocation counts `calls`.
SubscribedTimes(c, calls) == Cardinality({h \in DOMAIN calls : handleCb[h] = c})
UnsubscribedTimes(c, calls) == Cardinality({h \in DOMAIN calls : handleCb[h] = c /\ calls[h] >= 1})
NoHandleTwice(c, calls) == \A h \in DOMAIN calls : handleCb[h] = c => calls[h] <= 1

\* C6: a callback subscribed k times of which j distinct handles were invoked once
\* is stored k - j times, and an emit invokes it k - j times.
C6_NoDeduplication ==
    \A c \in Callbacks :
        /\ NoHandleTwice(c, handleCalls) =>
              Count(listeners, c) = SubscribedTimes(c, handleCalls) - UnsubscribedTimes(c, handleCalls)
        /\ \A e \in DOMAIN emits :
              (emits[e].done /\ emits[e].mutated = "none" /\ NoHandleTwice(c, emits[e].calls0)) =>
                  Count(DeliveredCbs(e), c) =
                      SubscribedTimes(c, emits[e].calls0) - UnsubscribedTimes(c, emits[e].calls0)

\* A finished emit that invoked a callback subscribed several times, one of whose
\* handles had been invoked.
C6_Witness ==
    \E c \in Callbacks : \E e \in DOMAIN emits :
        /\ emits[e].done /\ emits[e].mutated = "none"
        /\ NoHandleTwice(c, emits[e].calls0)
        /\ SubscribedTimes(c, emits[e].calls0) >= 2
        /\ UnsubscribedTimes(c, emits[e].calls0) >= 1
        /\ Count(DeliveredCbs(e), c) >= 1

\* C7: a callback is invoked with event e only if one of its subscribe calls was
\* made before emit(e) began.
C7_LateSubscriberNotInvoked ==
    \A i \in DOMAIN log :
        \E h \in DOMAIN handleCb : handleCb[h] = log[i].cb /\ handleAt[h] < log[i].ev

\* C8: no listener is invoked with a later emit's event before an earlier emit's event.
C8_DeliveryInEmitOrder ==
    \A i, j \in DOMAIN log :
        (i < j /\ log[i].cb = log[j].cb) => log[i].ev <= log[j].ev

\* ------------------------------------------------------------------ properties of the refresh
EmitsOf(i) == {e \in DOMAIN emits : emits[e].caller = i}

AllFetchesSettled(r) ==
    r.outcomes.project # "pending" /\ r.outcomes.prd # "pending" /\ r.outcomes.spec # "pending"

\* The fields of a result or of an event payload that hold a value.
Fields(x) == {f \in {"project", "prd", "spec"} : x[f] # Undefined}

\* C9: a refreshProjectData(P) call emits nothing before its three fetch attempts
\* have settled, and once they have it has emitted exactly one event, of update
\* type 'all' for project P, whatever the outcomes of the fetches.
C9_OneAllEventAfterAllFetches ==
    \A i \in DOMAIN refreshes :
        LET r == refreshes[i] IN
        /\ EmitsOf(i) # {} => AllFetchesSettled(r)
        /\ r.pc \in {"emitting", "done"} => AllFetchesSettled(r)
        /\ r.pc \in {"emitting", "done"} <=> Cardinality(EmitsOf(i)) = 1
        /\ Cardinality(EmitsOf(i)) <= 1
        /\ \A e \in EmitsOf(i) :
            emits[e].event.updateType = "all" /\ emits[e].event.projectId = r.projectId

\* A refresh has returned although its three fetches failed, and it has emitted
\* its one event to a listener.
C9_Witness ==
    \E i \in DOMAIN refreshes :
        /\ refreshes[i].pc = "done"
        /\ refreshes[i].outcomes = [project |-> "error", prd |-> "error", spec |-> "notFound"]
        /\ \E e \in EmitsOf(i) : emits[e].done /\ DeliveredCbs(e) # <<>>

\* C10: with the project fetched and PRD and Spec each found or not found, the
\* result holds project, holds prd and spec exactly when they exist, has no
\* errors, and the emitted event carries the same fields as the result.
C10_ResultAndPayloadFields ==
    \A i \in DOMAIN refreshes :
        LET r == refreshes[i] IN
        (/\ r.pc = "done"
         /\ ~Throws(r.outcomes.project)
         /\ r.outcomes.prd # "error"
         /\ r.outcomes.spec # "error")
        => /\ r.result.project # Undefined
           /\ r.result.prd # Undefined <=> ~Throws(r.outcomes.prd)
           /\ r.result.spec # Undefined <=> ~Throws(r.outcomes.spec)
           /\ r.result.errors = <<>>
           /\ \A e \in EmitsOf(i) : Fields(emits[e].event.data) = Fields(r.result)
           /\ EmitsOf(i) # {}

\* The refresh of a project without PRD and with a Spec has returned.
C10_Witness ==
    \E i \in DOMAIN refreshes :
        /\ refreshes[i].pc = "done"
        /\ ~Throws(refreshes[i].outcomes.project)
        /\ refreshes[i].outcomes.prd = "notFound"
        /\ ~Throws(refreshes[i].outcomes.spec)
        /\ refreshes[i].result.prd = Undefined
        /\ \E e \in EmitsOf(i) : Fields(emits[e].event.data) = {"project", "spec"}

\* C11: when the project fetch fails and the PRD and Spec fetches succeed, both
\* later fetches were attempted, the result holds prd and spec and no project, its
\* errors hold exactly one entry, the one of the project failure, and the emitted
\* event carries prd and spec and no project field.
C11_ProjectFailureKeepsPrdAndSpec ==
    \A i \in DOMAIN refreshes :
        LET r == refreshes[i] IN
        /\ (Throws(r.outcomes.project) /\ r.pc = "done") => AllFetchesSettled(r)
        /\ (/\ r.pc = "done"
            /\ Throws(r.outcomes.project)
            /\ r.outcomes.prd = "ok"
            /\ r.outcomes.spec = "ok")
           => /\ Fields(r.result) = {"prd", "spec"}
              /\ r.result.prd = BackendPRD(r.projectId)
              /\ r.result.spec = BackendSpec(r.projectId)
              /\ r.result.errors = <<"Failed to refresh project data">>
              /\ EmitsOf(i) # {}
              /\ \A e \in EmitsOf(i) : Fields(emits[e].event.data) = {"prd", "spec"}

\* A refresh whose project fetch was rejected and whose PRD and Spec fetches
\* succeeded has returned, its event delivered to a listener.
C11_Witness ==
    \E i \in DOMAIN refreshes :
        /\ refreshes[i].pc = "done"
        /\ refreshes[i].outcomes = [project |-> "error", prd |-> "ok", spec |-> "ok"]
        /\ \E e \in EmitsOf(i) : emits[e].done /\ DeliveredCbs(e) # <<>>

\* The fetches of a refresh that failed for another reason than not-found, where
\* for the project fetch not-found is a failure as well.
RecordedFailures(r) ==
    {f \in {"prd", "spec"} : r.outcomes[f] = "error"}
        \cup (IF Throws(r.outcomes.project) THEN {"project"} ELSE {})

\* C12: a PRD or Spec fetch that fails because the entity does not exist adds
\* nothing to the errors of the result, and one that fails for a transient network
\* or service reason adds an entry.
C12_TransientFailureRecorded ==
    \A i \in DOMAIN refreshes :
        refreshes[i].pc = "done" =>
            Len(refreshes[i].result.errors) = Cardinality(RecordedFailures(refreshes[i]))

\* The emits made by the j-th refreshPRDData / refreshSpecData call.
EntityEmitsOf(j) == {e \in DOMAIN emits : emits[e].caller = -j}

\* C13: refreshPRDData(P) / refreshSpecData(P) returns the fetched entity and has
\* emitted exactly one event, of type 'prd' / 'spec' for project P carrying only
\* that entity, when the entity exists; when it does not exist the call returns
\* null, raises no error and emits no event.  No event is emitted before the fetch
\* has settled.
C13_EntityRefreshEmitsOneOrNone ==
    \A j \in DOMAIN entityRefreshes :
        LET r == entityRefreshes[j] IN
        /\ r.errors = 0
        /\ r.pc = "fetch" => EntityEmitsOf(j) = {}
        /\ (r.pc = "done" /\ r.outcome = "ok") =>
              /\ r.value = BackendEntity(r.kind, r.projectId)
              /\ Cardinality(EntityEmitsOf(j)) = 1
              /\ \A e \in EntityEmitsOf(j) :
                    /\ emits[e].done
                    /\ emits[e].event.updateType = r.kind
                    /\ emits[e].event.projectId = r.projectId
                    /\ Fields(emits[e].event.data) = {r.kind}
                    /\ emits[e].event.data[r.kind].id = r.value.id
        /\ (r.pc = "done" /\ r.outcome # "ok") =>
              /\ r.value = Null
              /\ EntityEmitsOf(j) = {}

\* A refreshPRDData call has returned the PRD, its event delivered to a listener,
\* and a refreshSpecData call has returned null for a Spec that does not exist.
C13_Witness ==
    \E i, j \in DOMAIN entityRefreshes :
        /\ entityRefreshes[i].kind = "prd" /\ entityRefreshes[i].pc = "done"
        /\ entityRefreshes[i].outcome = "ok"
        /\ \E e \in EntityEmitsOf(i) : DeliveredCbs(e) # <<>>
        /\ entityRefreshes[j].kind = "spec" /\ entityRefreshes[j].pc = "done"
        /\ entityRefreshes[j].outcome = "notFound"

\* ------------------------------------------------------------------ properties of the workspace
\* The step in which handleProjectUpdate runs, and the event it is called with.
Handling ==
    /\ stack # <<>>
    /\ ws.mounted
    /\ Top.running # 0
    /\ Len(stack') = Len(stack)
    /\ stack' # stack

HandledEvent == emits[Top.ev].event

\* The event is for the project the workspace shows.
ForShownProject(ev) == ev.projectId = Number(ws.projectId)

\* The state of the workspace that an update can touch.
ProjectView(w) == <<w.project, w.localTitle, w.localDescription>>
PRDView(w) == <<w.prd, w.content.prd>>
SpecView(w) == <<w.spec, w.content.spec>>

\* C14: an event whose projectId is not the project the workspace shows changes
\* nothing in the workspace (project, PRD, Spec, editor content, title and
\* description fields, active tab) and produces no notification, whatever its
\* update type, payload and source.
C14_OtherProjectEventIgnored ==
    [][(Handling /\ ~ForShownProject(HandledEvent)) => ws' = ws]_vars

\* An AI-agent event for another project carrying all three entities has been
\* delivered to the handler of a workspace whose project is loaded.
C14_Witness ==
    /\ ws.mounted
    /\ ws.project # Null
    /\ \E e \in DOMAIN emits :
        /\ emits[e].done /\ DeliveredCbs(e) # <<>>
        /\ ~ForShownProject(emits[e].event)
        /\ emits[e].event.source = "ai-agent"
        /\ emits[e].event.updateType = "all"
        /\ emits[e].event.data # Undefined
        /\ Fields(emits[e].event.data) = {"project", "prd", "spec"}

\* C15: an accepted event leaves each of the project, PRD and Spec views whose
\* field its payload lacks as it was; an 'all' event without payload changes
\* nothing; an 'all' event with prd and spec and no project, as emitted by a
\* refresh whose project fetch failed, leaves the project view and applies both.
C15_AbsentFieldsLeftUnchanged ==
    [][(Handling /\ ForShownProject(HandledEvent)) =>
        LET ev == HandledEvent IN
        /\ Falsy(DataField(ev, "project")) => ProjectView(ws') = ProjectView(ws)
        /\ Falsy(DataField(ev, "prd")) => PRDView(ws') = PRDView(ws)
        /\ Falsy(DataField(ev, "spec")) => SpecView(ws') = SpecView(ws)
        /\ (ev.updateType = "all" /\ ev.data = Undefined) => ws' = ws
        /\ (/\ ev.updateType = "all"
            /\ ~Falsy(DataField(ev, "prd"))
            /\ ~Falsy(DataField(ev, "spec"))
            /\ Falsy(DataField(ev, "project")))
           => /\ ProjectView(ws') = ProjectView(ws)
              /\ ws'.prd.title = ev.data.prd.title
              /\ ws'.prd.project_id = ev.projectId
              /\ ws'.content.prd = [title |-> ev.data.prd.title,
                                    content |-> ev.data.prd.content,
                                    status |-> ev.data.prd.status]
              /\ ws'.spec.title = ev.data.spec.title
              /\ ws'.content.spec.content = ev.data.spec.content]_vars

\* A workspace with its project and Spec loaded has handled an 'all' event from
\* source 'api' that carried a PRD only: the PRD is the event's, the rest is as loaded.
C15_Witness ==
    /\ ws.mounted
    /\ ws.project = BackendProject(Number(ws.projectId))
    /\ ws.spec = BackendSpec(Number(ws.projectId))
    /\ ws.prd # Null
    /\ ws.prd.title = Str("new title")
    /\ \E e \in DOMAIN emits :
        /\ emits[e].done /\ DeliveredCbs(e) # <<>>
        /\ emits[e].event.updateType = "all" /\ emits[e].event.source = "api"
        /\ emits[e].event.data # Undefined
        /\ Fields(emits[e].event.data) = {"prd"}

\* C16: after an accepted event of type 'all' or 'prd' from source 'ai-agent'
\* whose payload holds prd, the active tab is 'prd' whatever it was before, and
\* one notification naming "PRD" has been produced.
C16_AgentPRDSwitchesToPRDTab ==
    [][(/\ Handling /\ ForShownProject(HandledEvent)
        /\ HandledEvent.updateType \in {"all", "prd"}
        /\ HandledEvent.source = "ai-agent"
        /\ ~Falsy(DataField(HandledEvent, "prd")))
       => /\ ws'.activeTab = "prd"
          /\ Len(ws'.toasts) = Len(ws.toasts) + 1
          /\ \E n \in DOMAIN ws'.toasts[Len(ws'.toasts)].names :
                ws'.toasts[Len(ws'.toasts)].names[n] = "PRD"]_vars

\* The handler subscribed while the 'spec' tab was active has just switched the
\* workspace to 'prd' and notified.
C16_Witness ==
    /\ ws.mounted
    /\ ws.handler.activeTab = "spec"
    /\ ws.activeTab = "prd"
    /\ ws.toasts # <<>>
    /\ ws.toasts[Len(ws.toasts)].names = <<"PRD">>

\* C17: an accepted 'ai-agent' event that carries spec and no prd, arriving while
\* the 'prd' tab is active, makes 'spec' the active tab.
C17_AgentSpecSwitchesToSpecTab ==
    [][(/\ Handling /\ ForShownProject(HandledEvent)
        /\ HandledEvent.updateType \in {"all", "spec"}
        /\ HandledEvent.source = "ai-agent"
        /\ ~Falsy(DataField(HandledEvent, "spec"))
        /\ Falsy(DataField(HandledEvent, "prd"))
        /\ ws.activeTab = "prd")
       => ws'.activeTab = "spec"]_vars

\* C18: when the workspace has moved from project P to project Q while a
\* refreshProjectData(P) call was in flight, the event that call emits is rejected:
\* nothing in the workspace changes.  The subscribed closure always holds the
\* project the workspace shows.
C18_StaleRefreshEventRejected ==
    [][/\ (ws.mounted /\ ws.handler.handle # 0) => ws.handler.projectId = ws.projectId
       /\ (/\ Handling
           /\ Top.caller > 0
           /\ refreshes[Top.caller].projectId # Number(ws.projectId))
          => ws' = ws]_vars

\* A refresh of P that began while the workspace showed P has delivered its event,
\* with entities in its payload, to the closure subscribed after the move to Q.
C18_Witness ==
    /\ ws.mounted
    /\ \E i \in DOMAIN refreshes : \E k \in DOMAIN ws.loads :
        /\ k > 1
        /\ ws.loads[k - 1].projectId = RouteParam(refreshes[i].projectId)
        /\ ws.loads[k].refreshesBefore >= i
        /\ ws.loads[k].projectId = ws.projectId
        /\ refreshes[i].projectId # Number(ws.projectId)
        /\ refreshes[i].pc = "done"
        /\ \E e \in EmitsOf(i) :
            /\ Fields(emits[e].event.data) = {"project", "prd", "spec"}
            /\ DeliveredCbs(e) = <<handleCb[ws.handler.handle]>>

\* ------------------------------------------------------------------ properties of the chat sidebar
\* What the sidebar did for turn t, in order: the operation and the role of the message.
TurnSteps(t) ==
    LET own == SelectSeq(chat.trace, LAMBDA st : st.turn = t)
    IN [i \in DOMAIN own |-> <<own[i].op, own[i].role>>]

\* The entries of the history of the sidebar for operation op of turn t.
StepsOf(t, op) == SelectSeq(chat.trace, LAMBDA st : st.turn = t /\ st.op = op)

SuccessfulTurn ==
    <<  <<"append", "user">>, <<"createMessage", "user">>, <<"chat", "">>,
        <<"chatReturned", "">>, <<"append", "assistant">>, <<"createMessage", "assistant">>,
        <<"refresh", "">>  >>

IsPrefix(a, b) == Len(a) <= Len(b) /\ a = SubSeq(b, 1, Len(a))

\* C19: a chat turn whose agent call succeeds appends the user message, issues one
\* create-message call with role 'user', calls the agent, which returns, appends
\* the assistant message, issues one create-message call with role 'assistant' and
\* invokes refreshProjectData once, in this order; that refresh publishes exactly
\* one 'all' event, and nothing is emitted between the agent call and its return.
C19_TurnStepsInOrder ==
    chat.mounted =>
    \A t \in DOMAIN chat.turns :
        LET turn == chat.turns[t] IN
        /\ turn.pc \in {"saveUser", "agent", "saveAssistant", "refresh"} =>
              IsPrefix(TurnSteps(t), SuccessfulTurn)
        /\ turn.pc \in {"saveUser", "agent", "saveAssistant"} => turn.refresh = 0
        /\ (turn.pc = "done" /\ turn.reply # Undefined) =>
              /\ TurnSteps(t) = SuccessfulTurn
              /\ StepsOf(t, "chatReturned")[1].arg.emitted = StepsOf(t, "chat")[1].arg.emitted
              /\ turn.refresh \in DOMAIN refreshes
              /\ refreshes[turn.refresh].projectId = ParseInt(turn.projectId)
              /\ \A s \in DOMAIN chat.turns : (s # t) => chat.turns[s].refresh # turn.refresh
              /\ Cardinality(EmitsOf(turn.refresh)) = 1
              /\ \A e \in EmitsOf(turn.refresh) :
                    /\ emits[e].event.updateType = "all"
                    /\ emits[e].event.projectId = ParseInt(turn.projectId)
                    /\ emits[e].done
                    /\ e > StepsOf(t, "chatReturned")[1].arg.emitted

\* Two turns with a reply have completed, each with its own refresh and event.
C19_Witness ==
    /\ chat.mounted
    /\ Len(chat.turns) = 2
    /\ \A t \in DOMAIN chat.turns : chat.turns[t].pc = "done" /\ chat.turns[t].reply # Undefined
    /\ Len(emits) = 2
    /\ ~chat.isLoading

\* The chat_history of the agent call of turn t.
SentHistory(t) == StepsOf(t, "chat")[1].arg.chat_history

\* C20: the chat_history of an agent call is the local transcript as it was before
\* the user message of the turn was appended, and the user message of a turn is
\* part of the chat_history of every later call.
C20_HistoryIsTranscriptBeforeTurn ==
    [][chat.mounted' =>
       /\ (chat.mounted /\ Len(chat'.turns) > Len(chat.turns)) =>
             /\ chat'.turns[Len(chat'.turns)].messages = chat.messages
             /\ Len(chat'.messages) = Len(chat.messages) + 1
             /\ SubSeq(chat'.messages, 1, Len(chat.messages)) = chat.messages
       /\ \A t \in DOMAIN chat'.turns :
             StepsOf(t, "chat")' # <<>> =>
                /\ SentHistory(t)' = ChatHistoryFor(chat'.turns[t].messages)
                /\ \A s \in 1..(t - 1) :
                      \E k \in DOMAIN SentHistory(t)' :
                          SentHistory(t)'[k] = [role |-> "user",
                                               content |-> chat'.turns[s].inputValue]]_vars

\* The part of C20 the code satisfies: the chat_history sent is the transcript the
\* sidebar held when handleSendMessage was called.
C20_HistoryExcludesCurrentMessage ==
    [][chat.mounted' =>
       /\ (chat.mounted /\ Len(chat'.turns) > Len(chat.turns)) =>
             /\ chat'.turns[Len(chat'.turns)].messages = chat.messages
             /\ Len(chat'.messages) = Len(chat.messages) + 1
             /\ SubSeq(chat'.messages, 1, Len(chat.messages)) = chat.messages
       /\ \A t \in DOMAIN chat'.turns :
             StepsOf(t, "chat")' # <<>> =>
                SentHistory(t)' = ChatHistoryFor(chat'.turns[t].messages)]_vars

\* ------------------------------------------------------------------ further properties of the refresh
\* C28: refreshProjectData never rejects: whatever the fetch outcomes and whatever
\* the listeners do, the call returns its result, whose errors hold at most one
\* entry, present exactly when the project fetch failed.
C28_RefreshNeverRejects ==
    \A i \in DOMAIN refreshes :
        LET r == refreshes[i] IN
        /\ Len(r.result.errors) <= 1
        /\ r.outcomes.project # "pending" =>
              (r.result.errors # <<>> <=> Throws(r.outcomes.project))
        /\ \A e \in EmitsOf(i) : emits[e].done => (r.pc = "done" /\ ~emits[e].rethrown)

\* A refresh whose PRD and Spec fetches failed and whose project fetch succeeded
\* has returned after a listener threw during its emit.
C28_Witness ==
    \E i \in DOMAIN refreshes :
        /\ refreshes[i].pc = "done"
        /\ refreshes[i].outcomes = [project |-> "ok", prd |-> "error", spec |-> "error"]
        /\ refreshes[i].result.errors = <<>>
        /\ \E e \in EmitsOf(i) : \E k \in DOMAIN log : log[k].ev = e /\ log[k].threw

\* C24: every event that refreshProjectData, refreshPRDData and refreshSpecData
\* emit has source 'api'; the workspace's handling of such an event leaves the
\* active tab as it was and produces no 'Updated by AI' notification.
C24_RefreshEventsAreApiSourced ==
    [][/\ \A e \in DOMAIN emits : emits[e].caller # 0 => emits[e].event.source = "api"
       /\ \A kind \in {"prd", "spec"}, p \in Projects :
             EntityEvent(kind, p, BackendEntity(kind, p)).source = "api"
       /\ (Handling /\ emits[Top.ev].caller # 0)
             => /\ ws'.activeTab = ws.activeTab
                /\ ws'.toasts = ws.toasts]_vars

\* The workspace, showing the 'spec' tab, has applied the PRD of a refresh event
\* for its project: the tab is still 'spec' and nothing was notified.
C24_Witness ==
    /\ ws.mounted
    /\ ws.activeTab = "spec"
    /\ ws.toasts = <<>>
    /\ \E e \in DOMAIN emits :
          /\ emits[e].caller > 0
          /\ emits[e].done
          /\ emits[e].visited > 0
          /\ emits[e].event.projectId = Number(ws.projectId)
          /\ ~Falsy(emits[e].event.data.prd)
          /\ ws.prd # Null
          /\ ws.content.prd.title = emits[e].event.data.prd.title

\* ------------------------------------------------------------------ further properties of the workspace
\* Every loadData call the workspace started has run to its end.
AllLoadsSettled == \A k \in DOMAIN ws.loads : ws.loads[k].pc = "done"

\* No project fetch of a load failed (the failure toast of loadData was never shown).
NoLoadFailed == \A n \in DOMAIN ws.toasts : ws.toasts[n].title # "Error"

\* C26: once every load has settled, the project, PRD and Spec the workspace
\* holds are those of the project it shows, also when the project changed while
\* the load of the project shown before was still in flight.
C26_LateLoadNeverOverwrites ==
    (ws.mounted /\ AllLoadsSettled /\ NoLoadFailed)
    => /\ ws.project # Null => ws.project.id = Number(ws.projectId)
       /\ ws.prd # Null => ws.prd.project_id = Number(ws.projectId)
       /\ ws.spec # Null => ws.spec.project_id = Number(ws.projectId)

\* ------------------------------------------------------------------ properties of the chat message routes
\* The last n of the rows, in the order they were created.
Latest(rows, n) == SubSeq(rows, Len(rows) - Min(n, Len(rows)) + 1, Len(rows))

Ids(rows) == [i \in 1..Len(rows) |-> rows[i].id]

\* C23: a recent-messages response for project p and limit n holds the n messages
\* of p created last (all of them when p has fewer), in the order they were
\* created, and no message of another project.
C23_RecentReturnsLatestAscending ==
    (backend.response # Undefined /\ backend.response.status = 200)
    => LET r == backend.response
           known == SubSeq(ProjectRows(backend.chat_messages, r.projectId), 1, r.total)
       IN Ids(r.messages) = Ids(Latest(known, r.limit))

\* ------------------------------------------------------------------ further properties of the chat sidebar
FailedTurn ==
    <<  <<"append", "user">>, <<"createMessage", "user">>, <<"chat", "">>,
        <<"chatFailed", "">>, <<"append", "assistant">>  >>

\* The agent call of turn t has failed.
Failed(t) == chat.turns[t].pc = "done" /\ chat.turns[t].reply = Undefined

\* C27: when the agent call of a turn fails, the step that handles the failure
\* appends the substitute error message to the transcript, resets isLoading,
\* starts no refresh, publishes no event and issues no create-message call; the
\* turn has then issued the create-message call of its user message and nothing
\* else towards the backend, and never invokes refreshProjectData.
C27_AgentFailureHandledLocally ==
    [][chat.mounted =>
       \A t \in DOMAIN chat.turns :
          /\ (chat.turns[t].pc = "agent" /\ Failed(t)') =>
                /\ chat'.messages = Append(chat.messages, ErrorMessage(t))
                /\ ~chat'.isLoading
                /\ Created(chat') = Created(chat)
                /\ refreshes' = refreshes
                /\ emits' = emits
          /\ Failed(t) =>
                /\ TurnSteps(t) = FailedTurn
                /\ chat.turns[t].refresh = 0
                /\ StepsOf(t, "createMessage")[1].arg.body.role = "user"
                /\ StepsOf(t, "createMessage")[1].arg.body.content = chat.turns[t].inputValue
                /\ (\A s \in DOMAIN chat.turns : chat.turns[s].pc = "done") => ~chat.isLoading]_vars

\* The first turn failed and the second, started after it, has completed: the
\* failed turn left isLoading reset so that the second could start.
C27_Witness ==
    /\ chat.mounted
    /\ Len(chat.turns) = 2
    /\ Failed(1)
    /\ chat.turns[2].pc = "done"
    /\ chat.turns[2].reply # Undefined
    /\ \E k \in DOMAIN chat.messages : chat.messages[k] = ErrorMessage(1)
    /\ Len(Created(chat)) >= 3

\* The turns whose handleSendMessage call has not finished.
InFlight == {t \in DOMAIN chat.turns : chat.turns[t].pc # "done"}

Sending == chat.mounted /\ chat.isLoading

\* C30: a send starts (a user message is appended, a create-message call and then
\* an agent call are issued) only when the input is not blank, no send is in
\* progress and the agent is online; at most one turn is in flight, exactly
\* while isLoading is true; every call towards the agent or the backend belongs
\* to a started turn; and a send in progress eventually resets isLoading.
C30_OneTurnInFlight ==
    /\ [][chat.mounted =>
            /\ Len(chat'.turns) > Len(chat.turns) =>
                  /\ ~Blank(chat.inputValue)
                  /\ ~chat.isLoading
                  /\ chat.agentStatus = "online"
            /\ (Blank(chat.inputValue) \/ chat.isLoading \/ chat.agentStatus # "online") =>
                  /\ Len(SelectSeq(chat'.trace, LAMBDA st : st.role = "user"))
                        = Len(SelectSeq(chat.trace, LAMBDA st : st.role = "user"))
                  /\ \A k \in DOMAIN chat'.messages :
                        chat'.messages[k].role = "user" /\ chat'.messages[k].id[1] = "local"
                        => \E j \in DOMAIN chat.messages : chat.messages[j] = chat'.messages[k]
            /\ Cardinality(InFlight) <= 1
            /\ chat.isLoading <=> InFlight # {}
            /\ \A t \in DOMAIN chat.turns : Len(StepsOf(t, "chat")) <= 1]_vars
    /\ (Sending ~> ~Sending)

\* A second turn is in flight after the first one completed, and the user has
\* typed the next text while it is: a send request now is refused.
C30_Witness ==
    /\ chat.mounted
    /\ Len(chat.turns) = 2
    /\ chat.turns[1].pc = "done"
    /\ chat.turns[2].pc = "agent"
    /\ chat.isLoading

\* The invocations of listeners that emit call e made.
Deliveries(e) == {k \in DOMAIN log : log[k].ev = e}

\* C29: the workspace has one listener on the bus while it is mounted, the closure
\* of its latest subscription effect, and none while it is not; the bus holds no
\* other listener of it, and an emit invokes its handler at most once, exactly
\* once when the workspace was mounted when the emit began.
C29_OneListenerPerWorkspace ==
    /\ Len(listeners) <= 1
    /\ ws.mounted => listeners = <<handleCb[ws.handler.handle]>>
    /\ ~ws.mounted => listeners = <<>>
    /\ \A e \in DOMAIN emits :
          /\ Cardinality(Deliveries(e)) <= 1
          /\ emits[e].done => Cardinality(Deliveries(e)) = Len(emits[e].listeners0)

\* The workspace was mounted, re-subscribed twice (project change, tab change),
\* handled an event and has unmounted.
C29_Witness ==
    /\ ~ws.mounted
    /\ Len(handleCb) = 3
    /\ \A h \in DOMAIN handleCalls : handleCalls[h] = 1
    /\ \E e \in DOMAIN emits : emits[e].done /\ Cardinality(Deliveries(e)) = 1

\* C25: once the sidebar shows another project than the one a turn was started
\* for, the steps of that turn (the agent reply, the failure, the refresh result)
\* leave the transcript and the held PRD and Spec context as they are.
C25_LateTurnLeavesOtherProjectAlone ==
    [][chat.mounted =>
       \A t \in DOMAIN chat.turns :
          (/\ chat.turns[t].projectId # chat.projectId
           /\ chat'.projectId = chat.projectId
           /\ chat'.turns[t].pc # chat.turns[t].pc)
          => /\ chat'.messages = chat.messages
             /\ chat'.existingPRD = chat.existingPRD
             /\ chat'.existingSpec = chat.existingSpec]_vars

\* ------------------------------------------------------------------ properties of saving
\* C22: a save issues a create call only for a project for which the backend
\* holds no such document, and an update call when it holds one.
C22_CreateOnlyWhenNoneExists ==
    ws.mounted =>
    \A k \in DOMAIN ws.saves :
        /\ ws.saves[k].op = "create" => ~ws.saves[k].existed
        /\ ws.saves[k].existed => ws.saves[k].op = "update"

\* The editor content of a document kind shows what the held record holds.
Agrees(w, kind) ==
    ~Falsy(w[kind]) =>
        /\ w.content[kind].title = w[kind].title
        /\ w.content[kind].content = OrElse(w[kind].content, Str(""))
        /\ w.content[kind].status = w[kind].status

\* The k-th save has just been answered with the saved document.
SaveArrives(k) ==
    /\ k \in DOMAIN ws.saves
    /\ ws.saves[k].pc = "pending"
    /\ ws'.saves[k].pc = "saved"

\* An event that carries the document of a kind is being applied.
EventArrives(kind) ==
    /\ Handling
    /\ ForShownProject(HandledEvent)
    /\ ~Falsy(DataField(HandledEvent, kind))

\* C21: when the response of a save or an accepted event arrives for a document,
\* the held record becomes the data that arrived, and the editor content then
\* shows the same version as the held record, whichever of the two arrived before.
C21_LastArrivalWinsConsistently ==
    [][ws.mounted =>
       /\ \A k \in 1..MaxSaves :
             SaveArrives(k) =>
                /\ ws'[ws.saves[k].kind] = SaveResponse(ws.saves[k])
                /\ Agrees(ws', ws.saves[k].kind)
       /\ \A kind \in Tabs :
             EventArrives(kind) =>
                /\ ws'[kind].title = DataField(HandledEvent, kind).title
                /\ ws'[kind].content = DataField(HandledEvent, kind).content
                /\ ws'[kind].status = DataField(HandledEvent, kind).status
                /\ Agrees(ws', kind)]_vars

====
